---- MODULE Spec2Model ----
(***************************************************************************)
(* pyvec<T>: a segmented, pointer-stable sequence container.               *)
(*                                                                         *)
(* A container owns a handle table (_ptrs) and shares a ChunkSet           *)
(* (_resources together with _capacity) with its shallow copies and        *)
(* slices.  Memory is modelled explicitly: every std::vector buffer (a     *)
(* chunk's element buffer, the outer vector's buffer of chunk headers)     *)
(* has an identity that is fresh at each allocation, an element address    *)
(* is <<buffer, offset>>, and _last_chunk is a pointer <<outer buffer,     *)
(* index>> to a chunk header.  A pointer whose buffer no longer exists is  *)
(* dangling.                                                               *)
(***************************************************************************)
EXTENDS Integers, Sequences, FiniteSets, TLC

VARIABLES
    vecs,   \* container name -> [live, res, ptrs, pivot, last]
    heap,   \* ChunkSet id -> [live, chunks, capsum, obuf, ocap]
    held,   \* a shared_ptr<T> returned by getitem(i)/pop(i): [res, h]
    nid,    \* next fresh buffer identity
    op      \* the call that produced this state, with its outcome

vars == <<vecs, heap, held, nid, op>>

(***************************************************************************)
(* Bounds of the model                                                     *)
(***************************************************************************)
MaxLen == 2     \* longest handle table an operation may produce
MaxIds == 4     \* buffers allocated in one behaviour
MaxElems == 3   \* elements stored in one ChunkSet
MaxN == 3       \* longest list the Python-interface calls are tried on
MaxStep == 3    \* slice steps range over -MaxStep..MaxStep
MaxCalls == 2   \* calls in one run of the two-container program

(***************************************************************************)
(* Program constants                                                       *)
(***************************************************************************)
min_chunk_size == 64

Names == {"a", "b"}
Other(c) == CHOOSE d \in Names : d # c
Vals == {0, 1}   \* two distinguishable element values; T() is 0
None == MaxN + MaxLen + MaxStep + 2   \* std::nullopt
SetIds == 1..(Cardinality(Names) + 1)

Max(x, y) == IF x >= y THEN x ELSE y
Min(x, y) == IF x <= y THEN x ELSE y
Abs(x) == IF x < 0 THEN -x ELSE x

\* C++ integer division and remainder (truncation toward zero)
CDiv(x, y) == IF (x >= 0) = (y > 0) THEN Abs(x) \div Abs(y) ELSE -(Abs(x) \div Abs(y))
CMod(x, y) == x - y * CDiv(x, y)

\* difference_type < size_type: the signed operand is converted to unsigned,
\* so a negative value compares as a huge one.
UnsignedLess(x, n) == x >= 0 /\ x < n

(***************************************************************************)
(* Memory                                                                  *)
(***************************************************************************)
NullBuf == 0
NullChunk == [ob |-> NullBuf, idx |-> 0]
NullHandle == [buf |-> NullBuf, off |-> 0]
WildBuf == NullBuf - 1   \* where a store through a garbage vector header lands
WildChunk == [ob |-> WildBuf, idx |-> 0]
WildHandle == [buf |-> WildBuf, off |-> 1]
DefaultVal == 0   \* T() for the value-initialising resize
NoHeld == [res |-> 0, h |-> NullHandle]

NoSet == [live |-> FALSE, chunks |-> <<>>, capsum |-> 0, obuf |-> NullBuf, ocap |-> 0]
EmptySet == [live |-> TRUE, chunks |-> <<>>, capsum |-> 0, obuf |-> NullBuf, ocap |-> 0]
DeadVec == [live |-> FALSE, res |-> 0, ptrs |-> <<>>, pivot |-> 0, last |-> NullChunk]

Remaining(ch) == ch.cap - Len(ch.elems)

RECURSIVE SumLens(_)
SumLens(chunks) ==
    IF chunks = <<>> THEN 0 ELSE Len(Head(chunks).elems) + SumLens(Tail(chunks))

\* the chunks that hold the buffer a handle points into
Holders(hp, h) ==
    {sc \in SetIds \X (1..MaxIds) :
        /\ hp[sc[1]].live
        /\ sc[2] <= Len(hp[sc[1]].chunks)
        /\ hp[sc[1]].chunks[sc[2]].buf = h.buf
        /\ h.buf # NullBuf
        /\ h.off <= Len(hp[sc[1]].chunks[sc[2]].elems)}

Valid(hp, h) == Holders(hp, h) # {}

\* *h for a valid handle
Deref(hp, h) ==
    LET sc == CHOOSE x \in Holders(hp, h) : TRUE
    IN hp[sc[1]].chunks[sc[2]].elems[h.off]

\* what a read through a handle yields: the element, or garbage when the
\* handle designates no element
Garbage == 0 - 1
Read(hp, h) == IF Valid(hp, h) THEN Deref(hp, h) ELSE Garbage

\* the ChunkSet whose outer vector buffer a chunk pointer points into
Owners(hp, p) == {s \in SetIds : hp[s].live /\ p.ob # NullBuf /\ hp[s].obuf = p.ob}

Refs(vs, hd, s) ==
    Cardinality({c \in Names : vs[c].live /\ vs[c].res = s}) + (IF hd.res = s THEN 1 ELSE 0)

\* shared_ptr: a ChunkSet is destroyed when its last reference is dropped
Collect(vs, hd, hp) ==
    [s \in SetIds |-> IF hp[s].live /\ Refs(vs, hd, s) > 0 THEN hp[s] ELSE NoSet]

FreeSet(hp) == CHOOSE s \in SetIds : ~hp[s].live /\ \A t \in SetIds : ~hp[t].live => s <= t

(***************************************************************************)
(* ChunkAllocator                                                          *)
(***************************************************************************)
\* std::vector<vec<T>>::emplace_back on the outer vector: when it is full its
\* buffer is reallocated (capacity doubles) and the chunk headers move.
OuterGrow(cs, id) ==
    IF Len(cs.chunks) = cs.ocap
    THEN [cs |-> [cs EXCEPT !.obuf = id, !.ocap = Max(1, 2 * @)], nid |-> id + 1]
    ELSE [cs |-> cs, nid |-> id]

\* new_chunk that leaves *_capacity as it was
new_chunk_uncounted(cs, n, id) ==
    LET g == OuterGrow(cs, id)
        ch == [buf |-> g.nid, cap |-> n, elems |-> <<>>]
    IN [cs |-> [g.cs EXCEPT !.chunks = Append(@, ch)], nid |-> g.nid + 1]

\* new_chunk(n): an empty chunk with n reserved slots
new_chunk(cs, n, id) ==
    LET g == OuterGrow(cs, id)
        ch == [buf |-> g.nid, cap |-> n, elems |-> <<>>]
    IN [cs |-> [g.cs EXCEPT !.chunks = Append(@, ch), !.capsum = @ + n],
        nid |-> g.nid + 1]

\* emplace_chunk(first, last) / emplace_chunk(count, value): a chunk built
\* from a sequence, so that capacity = size
emplace_chunk(cs, L, id) ==
    LET g == OuterGrow(cs, id)
        ch == [buf |-> IF L = <<>> THEN NullBuf ELSE g.nid, cap |-> Len(L), elems |-> L]
    IN [cs |-> [g.cs EXCEPT !.chunks = Append(@, ch), !.capsum = @ + Len(L)],
        nid |-> IF L = <<>> THEN g.nid ELSE g.nid + 1]

\* the scan with a pivot that moves past every chunk it visits
RECURSIVE ScanFrom_skip(_, _, _, _, _)
ScanFrom_skip(chunks, i, pivot, update, n) ==
    IF i > Len(chunks) THEN [pivot |-> pivot, ans |-> 0]
    ELSE LET rem == Remaining(chunks[i])
         IN IF rem >= n THEN [pivot |-> i, ans |-> i]
            ELSE ScanFrom_skip(chunks, i + 1, i, update, n)

\* the scan loop of suitable_chunk; i is the 1-based index of *iter
RECURSIVE ScanFrom(_, _, _, _, _)
ScanFrom(chunks, i, pivot, update, n) ==
    IF i > Len(chunks) THEN [pivot |-> pivot, ans |-> 0]
    ELSE LET rem == Remaining(chunks[i])
             pv == IF update /\ rem = 0 THEN i ELSE pivot
         IN IF rem >= n THEN [pivot |-> pv, ans |-> i]
            ELSE ScanFrom(chunks, i + 1, pv, update /\ ~(rem > 0), n)

SlowPath(v, hp, id, n) ==
    LET cs == hp[v.res]
        sc == ScanFrom(cs.chunks, v.pivot + 1, v.pivot, TRUE, n)
    IN IF sc.ans # 0
       THEN LET p == [ob |-> cs.obuf, idx |-> sc.ans]
            IN [v |-> [v EXCEPT !.pivot = sc.pivot, !.last = p],
                hp |-> hp, nid |-> id, tgt |-> p]
       ELSE LET nc == new_chunk(cs, Max(n, Max(cs.capsum, min_chunk_size)), id)
                p == [ob |-> nc.cs.obuf, idx |-> Len(nc.cs.chunks)]
            IN [v |-> [v EXCEPT !.pivot = sc.pivot, !.last = p],
                hp |-> [hp EXCEPT ![v.res] = nc.cs], nid |-> nc.nid, tgt |-> p]

\* suitable_chunk(n), n >= 1: the outcomes of the call.  Reading through a
\* dangling _last_chunk is undefined: the garbage read either sends the call
\* down the scan or makes it return the garbage header.
suitable_chunk(v, hp, id, n) ==
    IF v.last = NullChunk THEN {SlowPath(v, hp, id, n)}
    ELSE IF Owners(hp, v.last) # {}
    THEN LET s == CHOOSE t \in Owners(hp, v.last) : TRUE
         IN IF Remaining(hp[s].chunks[v.last.idx]) >= n
            THEN {[v |-> v, hp |-> hp, nid |-> id, tgt |-> v.last]}
            ELSE {SlowPath(v, hp, id, n)}
    ELSE {SlowPath(v, hp, id, n),
          [v |-> v, hp |-> hp, nid |-> id, tgt |-> WildChunk]}

\* chunk.push_back(x) on the chunk tgt points at; std::vector reallocates
\* its buffer when size = capacity
ChunkPush(hp, id, tgt, x) ==
    IF tgt.ob = WildBuf THEN [hp |-> hp, nid |-> id, h |-> WildHandle]
    ELSE LET s == CHOOSE t \in Owners(hp, tgt) : TRUE
             ch == hp[s].chunks[tgt.idx]
         IN IF Remaining(ch) > 0
            THEN [hp |-> [hp EXCEPT ![s].chunks[tgt.idx].elems = Append(@, x)],
                  nid |-> id,
                  h |-> [buf |-> ch.buf, off |-> Len(ch.elems) + 1]]
            ELSE [hp |-> [hp EXCEPT ![s].chunks[tgt.idx] =
                            [buf |-> id, cap |-> Max(1, 2 * ch.cap),
                             elems |-> Append(ch.elems, x)]],
                  nid |-> id + 1,
                  h |-> [buf |-> id, off |-> Len(ch.elems) + 1]]

\* push the values xs one by one; hs collects &chunk.back() after each.
\* While the chunk has room for all of xs no push reallocates, and the loop
\* amounts to one append of xs.
RECURSIVE ChunkPushAll(_, _, _, _, _)
ChunkPushAll(hp, id, tgt, xs, hs) ==
    IF xs = <<>> THEN [hp |-> hp, nid |-> id, hs |-> hs]
    ELSE IF tgt.ob = WildBuf
    THEN [hp |-> hp, nid |-> id, hs |-> hs \o [k \in 1..Len(xs) |-> WildHandle]]
    ELSE LET s == CHOOSE t \in Owners(hp, tgt) : TRUE
             ch == hp[s].chunks[tgt.idx]
         IN IF Remaining(ch) >= Len(xs)
            THEN [hp |-> [hp EXCEPT ![s].chunks[tgt.idx].elems = @ \o xs],
                  nid |-> id,
                  hs |-> hs \o [k \in 1..Len(xs) |->
                                    [buf |-> ch.buf, off |-> Len(ch.elems) + k]]]
            ELSE LET r == ChunkPush(hp, id, tgt, Head(xs))
                 IN ChunkPushAll(r.hp, r.nid, tgt, Tail(xs), Append(hs, r.h))

(***************************************************************************)
(* IndexTable: operations on the handle table                              *)
(***************************************************************************)
Ok(v, hp, id) == [v |-> v, hp |-> hp, nid |-> id, res |-> "ok"]
Throw(v, hp, id, e) == [v |-> v, hp |-> hp, nid |-> id, res |-> e]

RemoveRange(ptrs, first, last) ==   \* std::vector::erase(begin+first, begin+last)
    SubSeq(ptrs, 1, first) \o SubSeq(ptrs, last + 1, Len(ptrs))

\* _ptrs[k] for a 0-based k; outside the table the read is out of bounds
\* and yields garbage
At(ptrs, k) == IF k >= 0 /\ k < Len(ptrs) THEN ptrs[k + 1] ELSE WildHandle

\* insert_empty with the shift loop stopping one slot early (i > idx)
insert_empty_short(ptrs, idx, count) ==
    [i \in 1..(Len(ptrs) + count) |->
        IF i <= idx THEN ptrs[i]
        ELSE IF i > idx + count + 1 THEN ptrs[i - count]
        ELSE IF i <= Len(ptrs) THEN ptrs[i] ELSE NullHandle]

\* insert_empty(pos, count) for idx <= size: the table after the resize and
\* the backward shift
insert_empty(ptrs, idx, count) ==
    [i \in 1..(Len(ptrs) + count) |->
        IF i <= idx THEN ptrs[i]
        ELSE IF i > idx + count THEN ptrs[i - count]
        ELSE IF i <= Len(ptrs) THEN ptrs[i] ELSE NullHandle]

\* the guard of insert_empty: idx > _ptrs.size() compares as unsigned
insert_empty_throws(ptrs, idx) == ~(idx >= 0 /\ idx <= Len(ptrs))

\* pypos that takes no negative index
pypos_ok_unsigned(n, index) == index >= 0 /\ index < n

\* pypos(index): the resolved position, or throws OutOfRange
pypos_ok(n, index) ==
    LET ans == IF index < 0 THEN index + n ELSE index
    IN ~(ans < 0 \/ ~UnsignedLess(ans, n))
pypos(n, index) == IF index < 0 THEN index + n ELSE index

\* overwrite table slots start, start+step, ... with the handles hs
RECURSIVE Fill(_, _, _, _)
Fill(ptrs, k, step, hs) ==
    IF hs = <<>> THEN ptrs
    ELSE Fill([ptrs EXCEPT ![k + 1] = Head(hs)], k + step, step, Tail(hs))

(***************************************************************************)
(* Container: vector-like modifiers                                        *)
(***************************************************************************)
push_back(v, hp, id, x) ==
    {LET p == ChunkPush(r.hp, r.nid, r.tgt, x)
     IN Ok([r.v EXCEPT !.ptrs = Append(@, p.h)], p.hp, p.nid) :
        r \in suitable_chunk(v, hp, id, 1)}

\* insert that asks for the chunk before it checks the position
insert_range_unchecked(v, hp, id, idx, xs) ==
    IF xs = <<>> THEN {Ok(v, hp, id)}
    ELSE {IF insert_empty_throws(v.ptrs, idx) THEN Throw(r.v, r.hp, r.nid, "OutOfRange")
          ELSE LET p == ChunkPushAll(r.hp, r.nid, r.tgt, xs, <<>>)
               IN Ok([r.v EXCEPT !.ptrs = Fill(insert_empty(@, idx, Len(xs)), idx, 1, p.hs)],
                     p.hp, p.nid) :
             r \in suitable_chunk(v, hp, id, Len(xs))}

\* insert(pos, first, last) and, with one value, insert(pos, value) and
\* emplace(pos, args): idx = pos - cbegin()
insert_range(v, hp, id, idx, xs) ==
    IF xs = <<>> THEN {Ok(v, hp, id)}
    ELSE IF insert_empty_throws(v.ptrs, idx) THEN {Throw(v, hp, id, "OutOfRange")}
    ELSE LET v1 == [v EXCEPT !.ptrs = insert_empty(v.ptrs, idx, Len(xs))]
         IN {LET p == ChunkPushAll(r.hp, r.nid, r.tgt, xs, <<>>)
             IN Ok([r.v EXCEPT !.ptrs = Fill(@, idx, 1, p.hs)], p.hp, p.nid) :
                r \in suitable_chunk(v1, hp, id, Len(xs))}

erase(v, hp, id, idx) ==
    IF ~UnsignedLess(idx, Len(v.ptrs)) \/ idx < 0
    THEN {Throw(v, hp, id, "OutOfRange")}
    ELSE {Ok([v EXCEPT !.ptrs = RemoveRange(@, idx, idx + 1)], hp, id)}

\* pop_back that also removes the element from the end of its chunk
pop_back_chunk(v, hp, id) ==
    IF v.ptrs = <<>> THEN {Throw(v, hp, id, "OutOfRange")}
    ELSE LET h == v.ptrs[Len(v.ptrs)]
             sc == CHOOSE z \in Holders(hp, h) : TRUE
             w == [v EXCEPT !.ptrs = SubSeq(@, 1, Len(@) - 1)]
         IN IF Valid(hp, h)
            THEN {Ok(w, [hp EXCEPT ![sc[1]].chunks[sc[2]].elems =
                                        SubSeq(@, 1, Len(@) - 1)], id)}
            ELSE {Ok(w, hp, id)}

pop_back(v, hp, id) ==
    IF v.ptrs = <<>> THEN {Throw(v, hp, id, "OutOfRange")}
    ELSE {Ok([v EXCEPT !.ptrs = SubSeq(@, 1, Len(@) - 1)], hp, id)}

\* resize(count) and resize(count, value): x is the fill value
resize(v, hp, id, count, x) ==
    IF count <= Len(v.ptrs) THEN {Ok([v EXCEPT !.ptrs = SubSeq(@, 1, count)], hp, id)}
    ELSE LET delta == count - Len(v.ptrs)
         IN {LET p == ChunkPushAll(r.hp, r.nid, r.tgt, [k \in 1..delta |-> x], <<>>)
             IN Ok([r.v EXCEPT !.ptrs = @ \o p.hs], p.hp, p.nid) :
                r \in suitable_chunk(v, hp, id, delta)}

\* reserve(new_cap): delta = new_cap - capacity() is unsigned.  When new_cap
\* is below the capacity delta wraps: size + delta wraps back when it can,
\* else _ptrs.reserve throws; then new_chunk(delta) has emplaced an empty
\* chunk header when chunk.reserve(delta) throws length_error.
reserve(v, hp, id, new_cap) ==
    LET cs == hp[v.res]
        d == new_cap - cs.capsum
    IN IF d = 0 THEN {Ok(v, hp, id)}
       ELSE IF d > 0
       THEN LET nc == new_chunk(cs, Max(min_chunk_size, d), id)
            IN {Ok(v, [hp EXCEPT ![v.res] = nc.cs], nc.nid)}
       ELSE IF Len(v.ptrs) + d < 0 THEN {Throw(v, hp, id, "LengthError")}
       ELSE LET g == OuterGrow(cs, id)
                ch == [buf |-> NullBuf, cap |-> 0, elems |-> <<>>]
            IN {Throw(v, [hp EXCEPT ![v.res] = [g.cs EXCEPT !.chunks = Append(@, ch)]],
                      g.nid, "LengthError")}

\* std::vector::shrink_to_fit is a non-binding request: a build that honours
\* it moves the elements of a chunk with spare capacity to a new buffer
RECURSIVE ShrinkChunks(_, _, _)
ShrinkChunks(chunks, id, acc) ==
    IF chunks = <<>> THEN [chunks |-> acc, nid |-> id]
    ELSE LET ch == Head(chunks)
         IN IF Remaining(ch) = 0 THEN ShrinkChunks(Tail(chunks), id, Append(acc, ch))
            ELSE IF ch.elems = <<>>
            THEN ShrinkChunks(Tail(chunks), id,
                              Append(acc, [buf |-> NullBuf, cap |-> 0, elems |-> <<>>]))
            ELSE ShrinkChunks(Tail(chunks), id + 1,
                              Append(acc, [buf |-> id, cap |-> Len(ch.elems),
                                           elems |-> ch.elems]))

RECURSIVE SumCaps(_)
SumCaps(chunks) == IF chunks = <<>> THEN 0 ELSE Head(chunks).cap + SumCaps(Tail(chunks))

shrink_to_fit(v, hp, id) ==
    LET cs == hp[v.res]
        sh == ShrinkChunks(cs.chunks, id, <<>>)
    IN {Ok(v, [hp EXCEPT ![v.res] = [cs EXCEPT !.capsum = SumCaps(cs.chunks)]], id),
        Ok(v, [hp EXCEPT ![v.res] = [cs EXCEPT !.chunks = sh.chunks,
                                              !.capsum = SumCaps(sh.chunks)]], sh.nid)}

(***************************************************************************)
(* Container: Python-list-like interface                                   *)
(***************************************************************************)
\* setitem that assigns through the handle already in the table
setitem_in_place(v, hp, id, index, x) ==
    IF ~pypos_ok(Len(v.ptrs), index) THEN {Throw(v, hp, id, "OutOfRange")}
    ELSE LET h == v.ptrs[pypos(Len(v.ptrs), index) + 1]
             sc == CHOOSE z \in Holders(hp, h) : TRUE
         IN IF Valid(hp, h)
            THEN {Ok(v, [hp EXCEPT ![sc[1]].chunks[sc[2]].elems[h.off] = x], id)}
            ELSE {Ok(v, hp, id)}

setitem(v, hp, id, index, x) ==
    IF ~pypos_ok(Len(v.ptrs), index) THEN {Throw(v, hp, id, "OutOfRange")}
    ELSE {LET p == ChunkPush(r.hp, r.nid, r.tgt, x)
          IN Ok([r.v EXCEPT !.ptrs[pypos(Len(v.ptrs), index) + 1] = p.h], p.hp, p.nid) :
             r \in suitable_chunk(v, hp, id, 1)}

delitem(v, hp, id, index) ==
    IF ~pypos_ok(Len(v.ptrs), index) THEN {Throw(v, hp, id, "OutOfRange")}
    ELSE LET pos == pypos(Len(v.ptrs), index)
         IN {Ok([v EXCEPT !.ptrs = RemoveRange(@, pos, pos + 1)], hp, id)}

reverse(v, hp, id) ==
    {Ok([v EXCEPT !.ptrs = [i \in 1..Len(@) |-> @[Len(@) + 1 - i]]], hp, id)}

\* the key functions passed to sort(key, reverse): the identity (which
\* sort(reverse) passes), a constant, and the complement
Keys == 1..3
KeyOf(key, x) == IF key = 1 THEN x ELSE IF key = 2 THEN 0 ELSE 1 - x

\* cmp(a, b) is key(*a) < key(*b); gfx::timsort is a stable sort: h goes
\* before the first handle that compares greater
RECURSIVE InsertSorted(_, _, _, _)
InsertSorted(sorted, h, hp, key) ==
    IF sorted = <<>> THEN <<h>>
    ELSE IF KeyOf(key, Deref(hp, h)) < KeyOf(key, Deref(hp, Head(sorted)))
    THEN <<h>> \o sorted
    ELSE <<Head(sorted)>> \o InsertSorted(Tail(sorted), h, hp, key)

RECURSIVE StableSort(_, _, _, _)
StableSort(ptrs, acc, hp, key) ==
    IF ptrs = <<>> THEN acc
    ELSE StableSort(Tail(ptrs), InsertSorted(acc, Head(ptrs), hp, key), hp, key)

Reversed(q) == [i \in 1..Len(q) |-> q[Len(q) + 1 - i]]

\* a reverse sort made of a forward sort and a reversal of the table
sort_key_flip(v, hp, id, key, rev) ==
    IF rev
    THEN {Ok([v EXCEPT !.ptrs = Reversed(StableSort(@, <<>>, hp, key))], hp, id)}
    ELSE {Ok([v EXCEPT !.ptrs = StableSort(@, <<>>, hp, key)], hp, id)}

\* sort(key, reverse): timsort over begin..end, or over rbegin..rend when
\* reverse
sort_key(v, hp, id, key, rev) ==
    IF rev
    THEN {Ok([v EXCEPT !.ptrs = Reversed(StableSort(Reversed(@), <<>>, hp, key))], hp, id)}
    ELSE {Ok([v EXCEPT !.ptrs = StableSort(@, <<>>, hp, key)], hp, id)}

\* sort that orders begin..end whatever reverse is
sort_forward(v, hp, id, rev) == sort_key(v, hp, id, 1, FALSE)

\* sort(reverse) is sort(key, reverse) with the identity key
sort(v, hp, id, rev) == sort_key(v, hp, id, 1, rev)

\* filter(func) with func(x) = (x >= t): remove_if + erase
filter(v, hp, id, t) ==
    {Ok([v EXCEPT !.ptrs = SelectSeq(@, LAMBDA h : Deref(hp, h) >= t)], hp, id)}

(***************************************************************************)
(* SliceResolver                                                           *)
(***************************************************************************)
Slice(start, stop, step) == [start |-> start, stop |-> stop, step |-> step]

\* build_slice for step # 0; start is the value before the cast to size_type
build_slice(n, sl) ==
    LET step == IF sl.step = None THEN 1 ELSE sl.step
    IN IF step > 0
       THEN LET st0 == IF sl.start = None THEN 0 ELSE sl.start
                start == IF st0 < 0 THEN Max(0, st0 + n) ELSE Min(st0, n)
                sp0 == IF sl.stop = None THEN n ELSE sl.stop
                stop == IF sp0 < 0 THEN Max(0, sp0 + n) ELSE Min(sp0, n)
            IN [start |-> start,
                num_steps |-> Max(0, CDiv(stop - start - 1, step) + 1),
                step |-> step]
       ELSE LET st0 == IF sl.start = None THEN n - 1 ELSE sl.start
                start == IF st0 < 0 THEN Max(0 - 1, st0 + n) ELSE Min(st0, n - 1)
                stop == IF sl.stop = None THEN 0 - 1
                        ELSE IF sl.stop < 0 THEN Max(0 - 1, sl.stop + n)
                        ELSE Min(sl.stop, n)
            IN [start |-> start,
                num_steps |-> Max(0, CDiv(start - stop - 1, 0 - step) + 1),
                step |-> step]

build_slice_throws(sl) == sl.step = 0

\* the 0-based table positions a normalized slice visits, in order
Visited(s) == [k \in 1..s.num_steps |-> s.start + (k - 1) * s.step]
InTable(n, s) == \A k \in 1..s.num_steps : Visited(s)[k] >= 0 /\ Visited(s)[k] < n

\* the handles getitem(slice) copies into the new table
slice_handles(ptrs, s) ==
    IF s.step = 1 THEN SubSeq(ptrs, s.start + 1, s.start + s.num_steps)
    ELSE [k \in 1..s.num_steps |-> At(ptrs, Visited(s)[k])]

\* delitem(slice)
delitem_slice(v, hp, id, sl) ==
    IF build_slice_throws(sl) THEN {Throw(v, hp, id, "InvalidArgument")}
    ELSE LET s == build_slice(Len(v.ptrs), sl)
             keep(i) == LET delta == i - s.start
                        IN ~(CMod(delta, s.step) = 0
                             /\ UnsignedLess(CDiv(delta, s.step), s.num_steps))
         IN IF s.num_steps = 0 THEN {Ok(v, hp, id)}
            ELSE IF Len(v.ptrs) - s.num_steps < 0 THEN {Throw(v, hp, id, "LengthError")}
            ELSE {Ok([v EXCEPT !.ptrs =
                        LET idx == SelectSeq([i \in 1..Len(v.ptrs) |-> i - 1], keep)
                        IN [j \in 1..Len(idx) |-> v.ptrs[idx[j] + 1]]], hp, id)}

\* setitem(slice, first, last) with the replacement values xs
setitem_slice(v, hp, id, sl, xs) ==
    IF build_slice_throws(sl) THEN {Throw(v, hp, id, "InvalidArgument")}
    ELSE IF xs = <<>> THEN delitem_slice(v, hp, id, sl)
    ELSE LET s == build_slice(Len(v.ptrs), sl)
             delta == Len(xs) - s.num_steps
         IN IF s.step = 1
            THEN LET t == IF delta > 0
                          THEN insert_empty(v.ptrs, s.start + s.num_steps, delta)
                          ELSE IF delta < 0
                          THEN RemoveRange(v.ptrs, s.start + s.num_steps + delta,
                                           s.start + s.num_steps)
                          ELSE v.ptrs
                 IN {LET p == ChunkPushAll(r.hp, r.nid, r.tgt, xs, <<>>)
                     IN Ok([r.v EXCEPT !.ptrs = Fill(@, s.start, 1, p.hs)], p.hp, p.nid) :
                        r \in suitable_chunk([v EXCEPT !.ptrs = t], hp, id, Len(xs))}
            ELSE IF s.num_steps = Len(xs)
            THEN {LET p == ChunkPushAll(r.hp, r.nid, r.tgt, xs, <<>>)
                  IN IF InTable(Len(v.ptrs), s)
                     THEN Ok([r.v EXCEPT !.ptrs = Fill(@, s.start, s.step, p.hs)],
                             p.hp, p.nid)
                     ELSE \* _ptrs[pivot] = ... stores outside the table
                          [v |-> r.v, hp |-> p.hp, nid |-> p.nid, res |-> "UB"] :
                     r \in suitable_chunk(v, hp, id, s.num_steps)}
            ELSE {Throw(v, hp, id, "InvalidArgument")}

(***************************************************************************)
(* Inputs                                                                  *)
(***************************************************************************)
Requests == {1, min_chunk_size, 2 * min_chunk_size + MaxLen}   \* reserve(n)
Steps == (0 - MaxStep)..MaxStep
Opt(S) == S \cup {None}

\* a list of length n with alternating values
Alt(n) == [k \in 1..n |-> k % 2]
Samples == {<<>>, Alt(MaxLen)}             \* initializer lists
SeqsOf(S, n) == UNION {[1..k -> S] : k \in 0..n}

\* How a specification drives the calls: whether the bounds of the model
\* guard them, whether the number of calls is limited, whether the label
\* records the arguments, whether the caller keeps a returned shared_ptr<T>,
\* and the index and position arguments.
Program == [bounded |-> TRUE, limit |-> TRUE, calls |-> MaxCalls,
            args |-> FALSE, keep |-> TRUE,
            idx |-> (0 - MaxLen - 1)..MaxLen, pos |-> 0..MaxLen,
            lists |-> Samples, requests |-> Requests]
Sharing == [Program EXCEPT !.calls = MaxCalls + 1]
Solo == [Program EXCEPT !.keep = FALSE, !.limit = FALSE]
Probe == [bounded |-> FALSE, limit |-> TRUE, calls |-> 1,
          args |-> TRUE, keep |-> TRUE,
          idx |-> (0 - MaxN - 1)..(MaxN + 1), pos |-> 0..(MaxN + 1),
          lists |-> SeqsOf(Vals, MaxN), requests |-> Requests \cup 0..(MaxN + 1)]

\* requests around the size of a chunk, so that a chunk can be left with
\* some free slots, yet too few for the next request
Bulk == [Sharing EXCEPT !.bounded = FALSE, !.args = TRUE,
         !.pos = {0, 1, 2, min_chunk_size - 1, min_chunk_size + 1}]

\* the label of a call: n counts the calls of a limited run
Lbl(m, name, c, i, j, k, xs, res) ==
    IF m.args
    THEN [name |-> name, c |-> c, i |-> i, j |-> j, k |-> k, xs |-> xs, res |-> res,
          n |-> IF m.limit THEN op.n + 1 ELSE 0]
    ELSE [name |-> name, c |-> c, i |-> 0, j |-> 0, k |-> 0, xs |-> <<>>, res |-> res,
          n |-> IF m.limit THEN op.n + 1 ELSE 0]

(***************************************************************************)
(* Steps of the program: one call each                                     *)
(***************************************************************************)
Bounded(vs, hp, id) ==
    /\ \A c \in Names : Len(vs[c].ptrs) <= MaxLen
    /\ \A s \in SetIds : SumLens(hp[s].chunks) <= MaxElems
    /\ id <= MaxIds + 1

\* a limited run makes at most m.calls calls
CanCall(m) == m.limit => op.n < m.calls

Step(m, vs, hp, hd, id, lbl) ==
    /\ m.bounded => Bounded(vs, hp, id)
    /\ vecs' = vs
    /\ heap' = Collect(vs, hd, hp)
    /\ held' = hd
    /\ nid' = id
    /\ op' = lbl

\* the outcome r of a call on container c
Call(m, c, r, lbl) == Step(m, [vecs EXCEPT ![c] = r.v], r.hp, held, r.nid, lbl)

\* pyvec(std::initializer_list<T>): the member initialisers, then assign(il)
constructed(hp, id, L) ==
    LET s == FreeSet(hp)
        e == IF L = <<>> THEN [cs |-> EmptySet, nid |-> id]
             ELSE emplace_chunk(EmptySet, L, id)
        ch == e.cs.chunks[1]
    IN [v |-> [live |-> TRUE, res |-> s,
               ptrs |-> [k \in 1..Len(L) |-> [buf |-> ch.buf, off |-> k]],
               pivot |-> 0, last |-> NullChunk],
        hp |-> [hp EXCEPT ![s] = e.cs], nid |-> e.nid, res |-> "ok"]

Construct(m, c) ==
    /\ CanCall(m)
    /\ ~vecs[c].live
    /\ \E L \in Samples :
        Call(m, c, constructed(heap, nid, L), Lbl(m, "construct", c, 0, 0, 0, L, "ok"))

Destroy(m, c) ==
    /\ CanCall(m)
    /\ vecs[c].live
    /\ Step(m, [vecs EXCEPT ![c] = DeadVec], heap, held, nid,
            Lbl(m, "destroy", c, 0, 0, 0, <<>>, "ok"))

\* push_back(value) and emplace_back(args) run the same statements
PushBack(m, c) ==
    /\ CanCall(m)
    /\ vecs[c].live
    /\ \E x \in Vals : \E r \in push_back(vecs[c], heap, nid, x) :
        Call(m, c, r, Lbl(m, "push_back", c, 0, 0, 0, <<x>>, r.res))

\* insert(pos, value) and emplace(pos, args) run the same statements
Insert(m, c) ==
    /\ CanCall(m)
    /\ vecs[c].live
    /\ \E pos \in m.pos, x \in Vals :
       \E r \in insert_range(vecs[c], heap, nid, pos, <<x>>) :
        Call(m, c, r, Lbl(m, "insert", c, pos, 0, 0, <<x>>, r.res))

Erase(m, c) ==
    /\ CanCall(m)
    /\ vecs[c].live
    /\ \E pos \in m.pos : \E r \in erase(vecs[c], heap, nid, pos) :
        Call(m, c, r, Lbl(m, "erase", c, pos, 0, 0, <<>>, r.res))

PopBack(m, c) ==
    /\ CanCall(m)
    /\ vecs[c].live
    /\ \E r \in pop_back(vecs[c], heap, nid) :
        Call(m, c, r, Lbl(m, "pop_back", c, 0, 0, 0, <<>>, r.res))

Resize(m, c) ==
    /\ CanCall(m)
    /\ vecs[c].live
    /\ \E count \in m.pos : \E r \in resize(vecs[c], heap, nid, count, DefaultVal) :
        Call(m, c, r, Lbl(m, "resize", c, count, 0, 0, <<>>, r.res))

Reserve(m, c) ==
    /\ CanCall(m)
    /\ vecs[c].live
    /\ \E n \in m.requests : \E r \in reserve(vecs[c], heap, nid, n) :
        Call(m, c, r, Lbl(m, "reserve", c, n, 0, 0, <<>>, r.res))

ShrinkToFit(m, c) ==
    /\ CanCall(m)
    /\ vecs[c].live
    /\ \E r \in shrink_to_fit(vecs[c], heap, nid) :
        Call(m, c, r, Lbl(m, "shrink_to_fit", c, 0, 0, 0, <<>>, r.res))

SetItem(m, c) ==
    /\ CanCall(m)
    /\ vecs[c].live
    /\ \E i \in m.idx, x \in Vals : \E r \in setitem(vecs[c], heap, nid, i, x) :
        Call(m, c, r, Lbl(m, "setitem", c, i, 0, 0, <<x>>, r.res))

DelItem(m, c) ==
    /\ CanCall(m)
    /\ vecs[c].live
    /\ \E i \in m.idx : \E r \in delitem(vecs[c], heap, nid, i) :
        Call(m, c, r, Lbl(m, "delitem", c, i, 0, 0, <<>>, r.res))

Reverse(m, c) ==
    /\ CanCall(m)
    /\ vecs[c].live
    /\ \E r \in reverse(vecs[c], heap, nid) :
        Call(m, c, r, Lbl(m, "reverse", c, 0, 0, 0, <<>>, r.res))

\* sort and filter read every element: with a dangling handle in the table
\* the read is undefined and the call is left out of the model
AllValid(v, hp) == \A k \in 1..Len(v.ptrs) : Valid(hp, v.ptrs[k])

Sort(m, c) ==
    /\ CanCall(m)
    /\ vecs[c].live
    /\ AllValid(vecs[c], heap)
    /\ \E rev \in BOOLEAN : \E r \in sort(vecs[c], heap, nid, rev) :
        Call(m, c, r, Lbl(m, "sort", c, IF rev THEN 1 ELSE 0, 0, 0, <<>>, r.res))

\* sort(key, reverse); the label records the key in k
SortKey(m, c) ==
    /\ CanCall(m)
    /\ vecs[c].live
    /\ AllValid(vecs[c], heap)
    /\ \E key \in Keys, rev \in BOOLEAN : \E r \in sort_key(vecs[c], heap, nid, key, rev) :
        Call(m, c, r, Lbl(m, "sort_key", c, IF rev THEN 1 ELSE 0, 0, key, <<>>, r.res))

Filter(m, c) ==
    /\ CanCall(m)
    /\ vecs[c].live
    /\ AllValid(vecs[c], heap)
    /\ \E t \in Vals : \E r \in filter(vecs[c], heap, nid, t) :
        Call(m, c, r, Lbl(m, "filter", c, t, 0, 0, <<>>, r.res))

\* clear(): a fresh ChunkSet replaces the shared one
Clear(m, c) ==
    /\ CanCall(m)
    /\ vecs[c].live
    /\ LET vs == [vecs EXCEPT ![c] = DeadVec]
           hp == Collect(vs, held, heap)
           s == FreeSet(hp)
       IN Step(m, [vecs EXCEPT ![c] = [live |-> TRUE, res |-> s, ptrs |-> <<>>,
                                       pivot |-> 0, last |-> NullChunk]],
               [hp EXCEPT ![s] = EmptySet], held, nid,
               Lbl(m, "clear", c, 0, 0, 0, <<>>, "ok"))

\* copy that leaves out the last handle
copy_short(v) == [v EXCEPT !.ptrs = SubSeq(@, 1, Len(@) - 1), !.last = NullChunk]

\* d = c.copy(): ans shares _resources and _capacity, copies _ptrs and
\* _chunk_pivot, and keeps the _last_chunk of a default-constructed pyvec
copy(v) == [v EXCEPT !.last = NullChunk]

Copy(m, c) ==
    /\ CanCall(m)
    /\ vecs[c].live
    /\ Step(m, [vecs EXCEPT ![Other(c)] = copy(vecs[c])],
            heap, held, nid, Lbl(m, "copy", c, 0, 0, 0, <<>>, "ok"))

\* getitem(slice) for step # 0: the returned container (a default-constructed
\* pyvec when the slice is empty) and the memory after the call
getitem_slice(v, hp, id, sl) ==
    LET s == build_slice(Len(v.ptrs), sl)
    IN IF s.num_steps = 0 THEN constructed(hp, id, <<>>)
       ELSE [v |-> [v EXCEPT !.ptrs = slice_handles(v.ptrs, s), !.last = NullChunk],
             hp |-> hp, nid |-> id,
             res |-> IF InTable(Len(v.ptrs), s) THEN "ok" ELSE "UB"]

\* d = c.getitem(slice)
GetSlice(m, c, I, K) ==
    /\ CanCall(m)
    /\ vecs[c].live
    /\ \E i \in I, j \in I, k \in K :
        LET sl == Slice(i, j, k)
            d == Other(c)
            vs == [vecs EXCEPT ![d] = DeadVec]
            r == getitem_slice(vecs[c], Collect(vs, held, heap), nid, sl)
        IN IF build_slice_throws(sl)
           THEN Step(m, vecs, heap, held, nid,
                     Lbl(m, "getitem_slice", c, i, j, k, <<>>, "InvalidArgument"))
           ELSE Step(m, [vecs EXCEPT ![d] = r.v], r.hp, held, r.nid,
                     Lbl(m, "getitem_slice", c, i, j, k, <<>>, r.res))

\* c.setitem(slice, xs.begin(), xs.end())
SetSlice(m, c, I, K, X) ==
    /\ CanCall(m)
    /\ vecs[c].live
    /\ \E i \in I, j \in I, k \in K, xs \in X :
       \E r \in setitem_slice(vecs[c], heap, nid, Slice(i, j, k), xs) :
        Call(m, c, r, Lbl(m, "setitem_slice", c, i, j, k, xs, r.res))

\* c.delitem(slice)
DelSlice(m, c, I, K) ==
    /\ CanCall(m)
    /\ vecs[c].live
    /\ \E i \in I, j \in I, k \in K :
       \E r \in delitem_slice(vecs[c], heap, nid, Slice(i, j, k)) :
        Call(m, c, r, Lbl(m, "delitem_slice", c, i, j, k, <<>>, r.res))

\* c.swap(d): _resources, _ptrs, _chunk_pivot and _capacity are exchanged
swap(v, w) == [w EXCEPT !.last = v.last]

Swap(m, c) ==
    LET d == Other(c)
    IN /\ CanCall(m)
       /\ vecs[c].live /\ vecs[d].live
       /\ Step(m, [vecs EXCEPT ![c] = swap(vecs[c], vecs[d]),
                               ![d] = swap(vecs[d], vecs[c])],
               heap, held, nid, Lbl(m, "swap", c, 0, 0, 0, <<>>, "ok"))

\* c = std::move(d): move_assign; the moved-from d goes out of scope
MoveAssign(m, c) ==
    LET d == Other(c)
    IN /\ CanCall(m)
       /\ vecs[d].live
       /\ Step(m, [vecs EXCEPT ![c] = vecs[d], ![d] = DeadVec],
               heap, held, nid, Lbl(m, "move_assign", c, 0, 0, 0, <<>>, "ok"))

\* share(index): a shared_ptr<T> that aliases _resources
share(v, pos) == [res |-> v.res, h |-> v.ptrs[pos + 1]]

\* what the caller holds after a call that returned the shared_ptr r
Kept(m, r) == IF m.keep THEN r ELSE held

\* getitem(index)
GetItem(m, c) ==
    /\ CanCall(m)
    /\ vecs[c].live
    /\ \E i \in m.idx :
        IF pypos_ok(Len(vecs[c].ptrs), i)
        THEN Step(m, vecs, heap, Kept(m, share(vecs[c], pypos(Len(vecs[c].ptrs), i))),
                  nid, Lbl(m, "getitem", c, i, 0, 0, <<>>, "ok"))
        ELSE Step(m, vecs, heap, held, nid,
                  Lbl(m, "getitem", c, i, 0, 0, <<>>, "OutOfRange"))

\* pop(index); pop() is pop(-1)
Pop(m, c) ==
    /\ CanCall(m)
    /\ vecs[c].live
    /\ \E i \in m.idx :
        IF pypos_ok(Len(vecs[c].ptrs), i)
        THEN LET pos == pypos(Len(vecs[c].ptrs), i)
             IN Step(m, [vecs EXCEPT ![c].ptrs = RemoveRange(@, pos, pos + 1)], heap,
                     Kept(m, share(vecs[c], pos)), nid,
                     Lbl(m, "pop", c, i, 0, 0, <<>>, "ok"))
        ELSE Step(m, vecs, heap, held, nid, Lbl(m, "pop", c, i, 0, 0, <<>>, "OutOfRange"))

\* the caller releases the shared element
DropHeld(m) ==
    /\ CanCall(m)
    /\ held # NoHeld
    /\ Step(m, vecs, heap, NoHeld, nid, Lbl(m, "drop", "a", 0, 0, 0, <<>>, "ok"))

\* at(pos): a reference to the element, or throws OutOfRange
At_ok(n, pos) == ~(pos >= n)

\* *h = x through the reference at(pos) returns, h a valid handle
store(hp, h, x) ==
    LET sc == CHOOSE z \in Holders(hp, h) : TRUE
    IN [hp EXCEPT ![sc[1]].chunks[sc[2]].elems[h.off] = x]

\* v.at(pos) = x: a value written through the reference; a write through a
\* dangling handle is undefined and left out of the model.  The label
\* records pos and x in every run.
Write(m, c) ==
    /\ CanCall(m)
    /\ vecs[c].live
    /\ \E pos \in m.pos, x \in Vals :
        LET lm == [m EXCEPT !.args = TRUE]
        IN IF ~At_ok(Len(vecs[c].ptrs), pos)
           THEN Step(m, vecs, heap, held, nid,
                     Lbl(lm, "at", c, pos, 0, 0, <<x>>, "OutOfRange"))
           ELSE /\ Valid(heap, vecs[c].ptrs[pos + 1])
                /\ Step(m, vecs, store(heap, vecs[c].ptrs[pos + 1], x), held, nid,
                        Lbl(lm, "at", c, pos, 0, 0, <<x>>, "ok"))

(***************************************************************************)
(* Construction and assignment from values, deep copies                    *)
(***************************************************************************)
\* the values *it reads over cbegin()..cend()
values(v, hp) == [k \in 1..Len(v.ptrs) |-> Deref(hp, v.ptrs[k])]

\* assign(first, last) and assign(il): try_init, return when the range is
\* empty, else a chunk built from the range is added to the ChunkSet the
\* container has and the table points at its elements
assign(v, hp, id, L) ==
    IF L = <<>> THEN {Ok(v, hp, id)}
    ELSE LET e == emplace_chunk(hp[v.res], L, id)
             ch == e.cs.chunks[Len(e.cs.chunks)]
         IN {Ok([v EXCEPT !.ptrs = [k \in 1..Len(L) |-> [buf |-> ch.buf, off |-> k]]],
                [hp EXCEPT ![v.res] = e.cs], e.nid)}

\* assign(count, value): no test for count = 0
assign_fill(v, hp, id, count, x) ==
    LET L == [k \in 1..count |-> x]
        e == emplace_chunk(hp[v.res], L, id)
        ch == e.cs.chunks[Len(e.cs.chunks)]
    IN {Ok([v EXCEPT !.ptrs = [k \in 1..count |-> [buf |-> ch.buf, off |-> k]]],
           [hp EXCEPT ![v.res] = e.cs], e.nid)}

\* deepcopy() is pyvec(*this), and pyvec(const pyvec&) is assign(other.begin(),
\* other.end()) on a new object
deepcopy(v, hp, id) == constructed(hp, id, values(v, hp))

\* d = c.deepcopy(), also pyvec<T> d(c): the object d held before is released
DeepCopy(m, c) ==
    /\ CanCall(m)
    /\ vecs[c].live
    /\ AllValid(vecs[c], heap)
    /\ LET d == Other(c)
           vs == [vecs EXCEPT ![d] = DeadVec]
           r == deepcopy(vecs[c], Collect(vs, held, heap), nid)
       IN Step(m, [vecs EXCEPT ![d] = r.v], r.hp, held, r.nid,
               Lbl(m, "deepcopy", c, 0, 0, 0, <<>>, r.res))

\* d = c with d constructed: operator=(const pyvec&)
CopyAssign(m, c) ==
    LET d == Other(c)
    IN /\ CanCall(m)
       /\ vecs[c].live /\ vecs[d].live
       /\ AllValid(vecs[c], heap)
       /\ \E r \in assign(vecs[d], heap, nid, values(vecs[c], heap)) :
            Call(m, d, r, Lbl(m, "copy_assign", c, 0, 0, 0, <<>>, r.res))

\* c.assign(L), c = L (initializer list), and c.assign(count, value)
Assign(m, c) ==
    /\ CanCall(m)
    /\ vecs[c].live
    /\ \/ \E L \in m.lists : \E r \in assign(vecs[c], heap, nid, L) :
            Call(m, c, r, Lbl(m, "assign", c, 0, 0, 0, L, r.res))
       \/ \E count \in m.pos, x \in Vals :
          \E r \in assign_fill(vecs[c], heap, nid, count, x) :
            Call(m, c, r, Lbl(m, "assign", c, 0, 0, 0, [k \in 1..count |-> x], r.res))

\* extend(other) is insert(cend(), other.cbegin(), other.cend()): the values
\* other's iterators read are pushed into a chunk of this container
extend(v, hp, id, w) == insert_range(v, hp, id, Len(v.ptrs), values(w, hp))

\* c.extend(d)
Extend(m, c) ==
    LET d == Other(c)
    IN /\ CanCall(m)
       /\ vecs[c].live /\ vecs[d].live
       /\ AllValid(vecs[d], heap)
       /\ \E r \in extend(vecs[c], heap, nid, vecs[d]) :
            Call(m, c, r, Lbl(m, "extend", c, 0, 0, 0, <<>>, r.res))

(***************************************************************************)
(* Ordering tests and comparison                                           *)
(***************************************************************************)
\* is_sorted(key, reverse) with the identity key: std::is_sorted over
\* begin..end, or over rbegin..rend when reverse: no element is less than
\* the one before it
is_sorted(v, hp, rev) ==
    LET q == IF rev THEN Reversed(v.ptrs) ELSE v.ptrs
    IN \A k \in 1..(Len(q) - 1) : ~(Deref(hp, q[k + 1]) < Deref(hp, q[k]))

\* how a bool is written in the label
Bool(t) == IF t THEN "true" ELSE "false"

IsSorted(m, c) ==
    /\ CanCall(m)
    /\ vecs[c].live
    /\ AllValid(vecs[c], heap)
    /\ \E rev \in BOOLEAN :
        Step(m, vecs, heap, held, nid,
             Lbl(m, "is_sorted", c, IF rev THEN 1 ELSE 0, 0, 0, <<>>,
                 Bool(is_sorted(vecs[c], heap, rev))))

\* operator==: equal sizes and no position whose elements differ
operator_eq(v, w, hp) ==
    IF Len(v.ptrs) # Len(w.ptrs) THEN FALSE
    ELSE \A k \in 1..Len(v.ptrs) : ~(Deref(hp, v.ptrs[k]) # Deref(hp, w.ptrs[k]))

\* operator< that compares the common positions only
lt_common(v, w, hp) ==
    \E k \in 1..Min(Len(v.ptrs), Len(w.ptrs)) :
        /\ Deref(hp, v.ptrs[k]) < Deref(hp, w.ptrs[k])
        /\ \A l \in 1..(k - 1) : Deref(hp, v.ptrs[l]) = Deref(hp, w.ptrs[l])

\* the loop of operator< from position i (1-based) on
RECURSIVE LtFrom(_, _, _, _)
LtFrom(v, w, hp, i) ==
    IF i > Min(Len(v.ptrs), Len(w.ptrs)) THEN Len(v.ptrs) < Len(w.ptrs)
    ELSE IF Deref(hp, v.ptrs[i]) < Deref(hp, w.ptrs[i]) THEN TRUE
    ELSE IF Deref(hp, w.ptrs[i]) < Deref(hp, v.ptrs[i]) THEN FALSE
    ELSE LtFrom(v, w, hp, i + 1)

operator_lt(v, w, hp) == LtFrom(v, w, hp, 1)
operator_ne(v, w, hp) == ~operator_eq(v, w, hp)
operator_le(v, w, hp) == ~operator_lt(w, v, hp)
operator_gt(v, w, hp) == operator_lt(w, v, hp)
operator_ge(v, w, hp) == ~operator_lt(v, w, hp)

\* the operators, numbered as the label names them
Operators == 1..6
compare(v, w, hp, k) ==
    CASE k = 1 -> operator_eq(v, w, hp)
      [] k = 2 -> operator_ne(v, w, hp)
      [] k = 3 -> operator_lt(v, w, hp)
      [] k = 4 -> operator_le(v, w, hp)
      [] k = 5 -> operator_gt(v, w, hp)
      [] k = 6 -> operator_ge(v, w, hp)

\* c OP d, or c OP c when self = 1
Compare(m, c) ==
    /\ CanCall(m)
    /\ \E k \in Operators, self \in {0, 1} :
        LET d == IF self = 1 THEN c ELSE Other(c)
        IN /\ vecs[c].live /\ vecs[d].live
           /\ AllValid(vecs[c], heap) /\ AllValid(vecs[d], heap)
           /\ Step(m, vecs, heap, held, nid,
                   Lbl(m, "compare", c, 0, self, k, <<>>,
                       Bool(compare(vecs[c], vecs[d], heap, k))))

\* erase(first, last): left = first - cbegin(), right = last - cbegin().  The
\* guard compares with _ptrs.size() as unsigned and does not compare left
\* with right; for left > right std::vector::erase is undefined: the build
\* moves the handles from right on to left on and puts the end behind
\* them, or leaves the table alone
erase_range(v, hp, id, left, right) ==
    IF \/ ~UnsignedLess(left, Len(v.ptrs)) \/ left < 0
       \/ ~(right >= 0 /\ right <= Len(v.ptrs)) \/ right < 0
    THEN {Throw(v, hp, id, "OutOfRange")}
    ELSE IF left <= right
    THEN {Ok([v EXCEPT !.ptrs = RemoveRange(@, left, right)], hp, id)}
    ELSE {[v |-> [v EXCEPT !.ptrs = RemoveRange(@, left, right)],
           hp |-> hp, nid |-> id, res |-> "UB"],
          [v |-> v, hp |-> hp, nid |-> id, res |-> "UB"]}

\* c.erase(c.begin() + first, c.begin() + last)
EraseRange(m, c) ==
    /\ CanCall(m)
    /\ vecs[c].live
    /\ \E first \in m.idx, last \in m.idx :
       \E r \in erase_range(vecs[c], heap, nid, first, last) :
        Call(m, c, r, Lbl(m, "erase_range", c, first, last, 0, <<>>, r.res))

\* c.insert(c.begin() + pos, first, last), insert(pos, il) and
\* insert(pos, count, value): all return pos at once for an empty sequence
InsertSeq(m, c) ==
    /\ CanCall(m)
    /\ vecs[c].live
    /\ \E pos \in m.pos, xs \in m.lists :
       \E r \in insert_range(vecs[c], heap, nid, pos, xs) :
        Call(m, c, r, Lbl(m, "insert_seq", c, pos, 0, 0, xs, r.res))

\* insert(index, value): pos = index >= size() ? size() : pypos(index),
\* where index >= size() compares as unsigned, then insert(cbegin() + pos,
\* value)
pyinsert(v, hp, id, index, x) ==
    LET n == Len(v.ptrs)
    IN IF ~UnsignedLess(index, n) THEN insert_range(v, hp, id, n, <<x>>)
       ELSE IF ~pypos_ok(n, index) THEN {Throw(v, hp, id, "OutOfRange")}
       ELSE insert_range(v, hp, id, pypos(n, index), <<x>>)

InsertAt(m, c) ==
    /\ CanCall(m)
    /\ vecs[c].live
    /\ \E index \in m.idx, x \in Vals :
       \E r \in pyinsert(vecs[c], heap, nid, index, x) :
        Call(m, c, r, Lbl(m, "insert_at", c, index, 0, 0, <<x>>, r.res))

(***************************************************************************)
(* Searching: remove(value), index(value, start, stop)                     *)
(***************************************************************************)
\* the values searched for: those the lists hold, and one they never hold
Sought == Vals \cup {Cardinality(Vals)}

\* the 0-based positions in left..right-1 whose element equals x
Matches(v, hp, left, right, x) ==
    {i \in left..(right - 1) : Deref(hp, v.ptrs[i + 1]) = x}

\* remove(value): erases the first handle whose element equals value
remove(v, hp, id, x) ==
    LET found == Matches(v, hp, 0, Len(v.ptrs), x)
    IN IF found = {} THEN {Throw(v, hp, id, "NotFound")}
       ELSE LET i == CHOOSE p \in found : \A q \in found : p <= q
            IN {Ok([v EXCEPT !.ptrs = RemoveRange(@, i, i + 1)], hp, id)}

Remove(m, c) ==
    /\ CanCall(m)
    /\ vecs[c].live
    /\ AllValid(vecs[c], heap)
    /\ \E x \in Sought : \E r \in remove(vecs[c], heap, nid, x) :
        Call(m, c, r, Lbl(m, "remove", c, 0, 0, 0, <<x>>, r.res))

\* index(value, start, stop): left = pypos(start.value_or(0)) throws
\* OutOfRange; right >= size() compares as unsigned, so that a negative stop
\* becomes size(); the result is the position found, or NotFound
index(v, hp, start, stop, x) ==
    LET n == Len(v.ptrs)
        s0 == IF start = None THEN 0 ELSE start
        r0 == IF stop = None THEN n ELSE stop
        right == IF ~UnsignedLess(r0, n) THEN n ELSE pypos(n, r0)
        found == Matches(v, hp, pypos(n, s0), right, x)
    IN IF ~pypos_ok(n, s0) THEN [res |-> "OutOfRange", pos |-> 0]
       ELSE IF found = {} THEN [res |-> "NotFound", pos |-> 0]
       ELSE [res |-> "ok", pos |-> CHOOSE p \in found : \A q \in found : p <= q]

\* the label records the position returned in k
Index(m, c) ==
    /\ CanCall(m)
    /\ vecs[c].live
    /\ AllValid(vecs[c], heap)
    /\ \E start \in Opt(m.idx), stop \in Opt(m.idx), x \in Sought :
        LET r == index(vecs[c], heap, start, stop, x)
        IN Step(m, vecs, heap, held, nid,
                Lbl(m, "index", c, start, stop, r.pos, <<x>>, r.res))

(***************************************************************************)
(* A container passed to itself: extend(v), insert(pos, begin, end),       *)
(* setitem(slice, v)                                                       *)
(***************************************************************************)
\* for (it = first; it != last; ++it) { chunk.push_back(*it);
\* _ptrs[pivot] = &chunk.back(); pivot += step; } with first = cbegin() of
\* the container itself and a table that was not reallocated: read k goes
\* through the table as the writes before it have left it
RECURSIVE CopyFromSelf(_, _, _, _, _, _, _, _)
CopyFromSelf(ptrs, hp, id, tgt, k, n, pivot, step) ==
    IF k = n THEN [ptrs |-> ptrs, hp |-> hp, nid |-> id]
    ELSE LET r == ChunkPush(hp, id, tgt, Read(hp, ptrs[k + 1]))
         IN CopyFromSelf([ptrs EXCEPT ![pivot + 1] = r.h], r.hp, r.nid, tgt,
                         k + 1, n, pivot + step, step)

\* the outcomes of the loop after suitable_chunk returned r: when the table
\* grew, _ptrs.resize may have reallocated it, and then first and last point
\* into the freed buffer and every read is undefined
SelfOutcomes(r, n, dst, step, grown) ==
    {LET c == CopyFromSelf(r.v.ptrs, r.hp, r.nid, r.tgt, 0, n, dst, step)
     IN Ok([r.v EXCEPT !.ptrs = c.ptrs], c.hp, c.nid)}
    \cup
    (IF grown
     THEN {LET p == ChunkPushAll(r.hp, r.nid, r.tgt, [k \in 1..n |-> Garbage], <<>>)
           IN [v |-> [r.v EXCEPT !.ptrs = Fill(@, dst, step, p.hs)],
               hp |-> p.hp, nid |-> p.nid, res |-> "UB"]}
     ELSE {})

\* v.insert(v.cbegin() + idx, v.cbegin(), v.cend()); v.extend(v) is the call
\* with idx = size()
insert_self(v, hp, id, idx) ==
    LET n == Len(v.ptrs)
    IN IF n = 0 THEN {Ok(v, hp, id)}
       ELSE IF insert_empty_throws(v.ptrs, idx) THEN {Throw(v, hp, id, "OutOfRange")}
       ELSE UNION {SelfOutcomes(r, n, idx, 1, TRUE) :
                     r \in suitable_chunk([v EXCEPT !.ptrs = insert_empty(@, idx, n)],
                                          hp, id, n)}

\* v.setitem(slice, v)
setitem_slice_self(v, hp, id, sl) ==
    LET n == Len(v.ptrs)
    IN IF build_slice_throws(sl) THEN {Throw(v, hp, id, "InvalidArgument")}
       ELSE IF n = 0 THEN delitem_slice(v, hp, id, sl)
       ELSE LET s == build_slice(n, sl)
                delta == n - s.num_steps
            IN IF s.step = 1
               THEN LET t == IF delta > 0
                             THEN insert_empty(v.ptrs, s.start + s.num_steps, delta)
                             ELSE v.ptrs
                    IN UNION {SelfOutcomes(r, n, s.start, 1, delta > 0) :
                                r \in suitable_chunk([v EXCEPT !.ptrs = t], hp, id, n)}
               ELSE IF s.num_steps = n
               THEN IF InTable(n, s)
                    THEN UNION {SelfOutcomes(r, n, s.start, s.step, FALSE) :
                                  r \in suitable_chunk(v, hp, id, n)}
                    ELSE {[v |-> v, hp |-> hp, nid |-> id, res |-> "UB"]}
               ELSE {Throw(v, hp, id, "InvalidArgument")}

ExtendSelf(m, c) ==
    /\ CanCall(m)
    /\ vecs[c].live
    /\ \E r \in insert_self(vecs[c], heap, nid, Len(vecs[c].ptrs)) :
        Call(m, c, r, Lbl(m, "extend_self", c, 0, 0, 0, <<>>, r.res))

InsertSelf(m, c) ==
    /\ CanCall(m)
    /\ vecs[c].live
    /\ \E pos \in m.pos : \E r \in insert_self(vecs[c], heap, nid, pos) :
        Call(m, c, r, Lbl(m, "insert_self", c, pos, 0, 0, <<>>, r.res))

SetSliceSelf(m, c, I, K) ==
    /\ CanCall(m)
    /\ vecs[c].live
    /\ \E i \in I, j \in I, k \in K :
       \E r \in setitem_slice_self(vecs[c], heap, nid, Slice(i, j, k)) :
        Call(m, c, r, Lbl(m, "setitem_slice_self", c, i, j, k, <<>>, r.res))

(***************************************************************************)
(* The program: two container variables a and b                            *)
(***************************************************************************)
\* the label of the state after construction
First(m, L) ==
    [name |-> "construct", c |-> "a", i |-> 0, j |-> 0, k |-> 0,
     xs |-> IF m.args THEN L ELSE <<>>, res |-> "ok", n |-> 0]

\* pyvec<T> a{L}, b;
Start(m, L) ==
    LET ra == constructed([s \in SetIds |-> NoSet], 1, L)
        rb == constructed(ra.hp, ra.nid, <<>>)
    IN /\ vecs = [c \in Names |-> IF c = "a" THEN ra.v ELSE rb.v]
       /\ heap = rb.hp
       /\ held = NoHeld
       /\ nid = rb.nid
       /\ op = First(m, L)

\* the runs start from an empty a and from a = pyvec{Alt(MaxLen)}
Init == \E L \in Samples : Start(Program, L)

\* the slices the program takes: all, reversed, head, tail
ProgramStarts == {None, 1}
ProgramSteps == {None, 0 - 1}

Next ==
    \/ DropHeld(Program)
    \/ \E c \in Names :
        \/ Construct(Program, c) \/ Destroy(Program, c) \/ Clear(Program, c)
        \/ PushBack(Program, c) \/ Insert(Program, c)
        \/ Erase(Program, c) \/ PopBack(Program, c) \/ Pop(Program, c)
        \/ Resize(Program, c) \/ Reserve(Program, c)
        \/ ShrinkToFit(Program, c) \/ SetItem(Program, c) \/ DelItem(Program, c)
        \/ GetItem(Program, c)
        \/ Reverse(Program, c) \/ Sort(Program, c) \/ Filter(Program, c)
        \/ Write(Program, c)
        \/ Copy(Program, c) \/ GetSlice(Program, c, ProgramStarts, ProgramSteps)
        \/ Swap(Program, c) \/ MoveAssign(Program, c)

Spec == Init /\ [][Next]_vars

(***************************************************************************)
(* One container and the calls that act on it alone                        *)
(***************************************************************************)
SeqNext ==
    \/ PushBack(Solo, "a") \/ Insert(Solo, "a") \/ Erase(Solo, "a")
    \/ PopBack(Solo, "a") \/ Pop(Solo, "a")
    \/ Resize(Solo, "a") \/ Reserve(Solo, "a") \/ SetItem(Solo, "a")
    \/ DelItem(Solo, "a") \/ Reverse(Solo, "a") \/ Sort(Solo, "a")
    \/ Filter(Solo, "a")

SpecSeq == Init /\ [][SeqNext]_vars

(***************************************************************************)
(* Two containers and the calls that hand ChunkSets from one to the other  *)
(***************************************************************************)
ShareNext ==
    \E c \in Names :
        \/ Construct(Sharing, c) \/ Destroy(Sharing, c) \/ Clear(Sharing, c)
        \/ PushBack(Sharing, c) \/ Insert(Sharing, c) \/ SetItem(Sharing, c)
        \/ Copy(Sharing, c) \/ GetSlice(Sharing, c, ProgramStarts, ProgramSteps)
        \/ Swap(Sharing, c) \/ MoveAssign(Sharing, c)

SpecShare == Init /\ [][ShareNext]_vars

(***************************************************************************)
(* One Python-interface call on a = pyvec{Alt(n)}, arguments recorded      *)
(***************************************************************************)
ProbeInit == \E n \in 0..MaxN : Start(Probe, Alt(n))

ProbeIdx == Opt(Probe.idx)
ProbeSteps == Opt(Steps)
Replacements == {Alt(k) : k \in 0..(MaxN + 1)}

ProbeNext ==
    \/ GetSlice(Probe, "a", ProbeIdx, ProbeSteps)
    \/ SetSlice(Probe, "a", ProbeIdx, ProbeSteps, Replacements)
    \/ DelSlice(Probe, "a", ProbeIdx, ProbeSteps)
    \/ GetItem(Probe, "a") \/ SetItem(Probe, "a") \/ DelItem(Probe, "a")
    \/ Pop(Probe, "a") \/ PopBack(Probe, "a") \/ Write(Probe, "a")
    \/ Insert(Probe, "a") \/ Erase(Probe, "a")
    \/ Remove(Probe, "a") \/ Index(Probe, "a")

SpecSlice == ProbeInit /\ [][ProbeNext]_vars

(***************************************************************************)
(* Two containers, copies of one another by value or by handle             *)
(***************************************************************************)
CopyNext ==
    \E c \in Names :
        \/ DeepCopy(Sharing, c) \/ CopyAssign(Sharing, c) \/ Copy(Sharing, c)
        \/ Extend(Sharing, c) \/ Write(Sharing, c) \/ PushBack(Sharing, c)
        \/ Erase(Sharing, c) \/ Clear(Sharing, c)
        \/ Destroy(Sharing, c) \/ Construct(Sharing, c)

SpecCopy == Init /\ [][CopyNext]_vars

(***************************************************************************)
(* One call on a = pyvec{L1}, with b = pyvec{L2}, for all short lists      *)
(***************************************************************************)
\* pyvec<T> a{L1}, b{L2};
StartBoth(m, L1, L2) ==
    LET ra == constructed([s \in SetIds |-> NoSet], 1, L1)
        rb == constructed(ra.hp, ra.nid, L2)
    IN /\ vecs = [c \in Names |-> IF c = "a" THEN ra.v ELSE rb.v]
       /\ heap = rb.hp
       /\ held = NoHeld
       /\ nid = rb.nid
       /\ op = First(m, L1)

ListInit == \E L1 \in Probe.lists, L2 \in Probe.lists : StartBoth(Probe, L1, L2)

ListNext ==
    \/ Sort(Probe, "a") \/ SortKey(Probe, "a") \/ IsSorted(Probe, "a")
    \/ \E c \in Names : Compare(Probe, c)
    \/ Assign(Probe, "a")
    \/ Erase(Probe, "a") \/ EraseRange(Probe, "a")
    \/ Insert(Probe, "a") \/ InsertSeq(Probe, "a") \/ PushBack(Probe, "a")
    \/ InsertAt(Probe, "a") \/ Reserve(Probe, "a")
    \/ Remove(Probe, "a") \/ Index(Probe, "a")
    \/ ExtendSelf(Probe, "a") \/ InsertSelf(Probe, "a")
    \/ SetSliceSelf(Probe, "a", ProgramStarts, ProgramSteps)

SpecList == ListInit /\ [][ListNext]_vars

(***************************************************************************)
(* Two containers and the calls that allocate, share or release chunks     *)
(***************************************************************************)
AllocNext ==
    \E c \in Names :
        \/ Construct(Sharing, c) \/ Destroy(Sharing, c) \/ Clear(Sharing, c)
        \/ PushBack(Sharing, c) \/ Insert(Sharing, c) \/ SetItem(Sharing, c)
        \/ Resize(Sharing, c) \/ Reserve(Sharing, c) \/ Assign(Sharing, c)
        \/ ShrinkToFit(Sharing, c) \/ PopBack(Sharing, c)
        \/ Copy(Sharing, c) \/ GetSlice(Sharing, c, ProgramStarts, ProgramSteps)
        \/ Swap(Sharing, c) \/ MoveAssign(Sharing, c)

SpecAlloc == Init /\ [][AllocNext]_vars

(***************************************************************************)
(* Two containers and requests of about a chunk's size                     *)
(***************************************************************************)
PivotNext ==
    \E c \in Names :
        \/ PushBack(Bulk, c) \/ Resize(Bulk, c)
        \/ ShrinkToFit(Bulk, c) \/ Clear(Bulk, c)
        \/ Copy(Bulk, c) \/ GetSlice(Bulk, c, ProgramStarts, ProgramSteps)
        \/ Swap(Bulk, c) \/ MoveAssign(Bulk, c)

SpecPivot == Init /\ [][PivotNext]_vars

(***************************************************************************)
(* Properties                                                              *)
(***************************************************************************)
\* the handles of container c in the state (vs, hp) that designate a stored
\* element
Stored(vs, hp, c) == {h \in {vs[c].ptrs[k] : k \in 1..Len(vs[c].ptrs)} : Valid(hp, h)}

\* every element whose handle is in the table of c before and after the
\* step is stored at the same address with the same value
KeepsElements(c) ==
    \A h \in Stored(vecs, heap, c) :
        (\E k \in 1..Len(vecs'[c].ptrs) : vecs'[c].ptrs[k] = h)
            => Valid(heap', h) /\ Deref(heap', h) = Deref(heap, h)

\* C1 (pointer stability): across push_back, emplace_back, insert, emplace,
\* erase, pop_back, pop, resize, reserve, setitem, delitem, sort, filter and
\* reverse on one container, every element in the handle table is stored at
\* the address its handle holds, and an element that stays in the table
\* keeps that address and its value.
C1_PointerStability ==
    [][/\ KeepsElements("a")
       /\ \A k \in 1..Len(vecs'["a"].ptrs) : Valid(heap', vecs'["a"].ptrs[k])]_vars

\* C2 (shrink_to_fit): shrink_to_fit() leaves every element of the handle
\* table of the container, and of every container that shares its ChunkSet,
\* at the same address with the same value.
C2_ShrinkKeepsAddresses ==
    [][op'.name = "shrink_to_fit" =>
        \A c \in Names : \A h \in Stored(vecs, heap, c) :
            Valid(heap', h) /\ Deref(heap', h) = Deref(heap, h)]_vars

\* C3 (handle liveness): in every reachable state every handle in a live
\* container's table designates an element stored in a chunk of the ChunkSet
\* that the same container references.
C3_HandleLiveness ==
    \A c \in Names : vecs[c].live =>
        \A k \in 1..Len(vecs[c].ptrs) :
            \E sc \in Holders(heap, vecs[c].ptrs[k]) : sc[1] = vecs[c].res

(***************************************************************************)
(* Python's list semantics, the reference the slice calls are compared to  *)
(***************************************************************************)
\* what a read through handle h yields: the stored value, or garbage
Contents(vs, hp, c) == [k \in 1..Len(vs[c].ptrs) |-> Read(hp, vs[c].ptrs[k])]

\* slice.indices(n) and the length of range(start, stop, step)
PyAdjust(n, sl) ==
    LET step == IF sl.step = None THEN 1 ELSE sl.step
        lower == IF step < 0 THEN 0 - 1 ELSE 0
        upper == IF step < 0 THEN n - 1 ELSE n
        clamp(x) == IF x < 0 THEN Max(x + n, lower) ELSE Min(x, upper)
        start == IF sl.start = None THEN (IF step < 0 THEN upper ELSE lower)
                 ELSE clamp(sl.start)
        stop == IF sl.stop = None THEN (IF step < 0 THEN lower ELSE upper)
                ELSE clamp(sl.stop)
        count == IF step > 0
                 THEN (IF stop > start THEN ((stop - start - 1) \div step) + 1 ELSE 0)
                 ELSE (IF stop < start THEN ((start - stop - 1) \div (0 - step)) + 1 ELSE 0)
    IN [start |-> start, count |-> count, step |-> step]

\* the 0-based positions list[start:stop:step] selects, in order
PySelected(n, sl) ==
    LET a == PyAdjust(n, sl)
    IN [k \in 1..a.count |-> a.start + (k - 1) * a.step]

\* list[start:stop:step] and the list after del list[start:stop:step]
PyGet(xs, sl) ==
    LET ps == PySelected(Len(xs), sl)
    IN [k \in 1..Len(ps) |-> xs[ps[k] + 1]]
PyDel(xs, sl) ==
    LET ps == PySelected(Len(xs), sl)
        kept == SelectSeq([q \in 1..Len(xs) |-> q - 1],
                          LAMBDA q : \A k \in 1..Len(ps) : ps[k] # q)
    IN [j \in 1..Len(kept) |-> xs[kept[j] + 1]]

\* the slice descriptor a label records
Called(lbl) == Slice(lbl.i, lbl.j, lbl.k)
UnitStep(lbl) == lbl.k = 1 \/ lbl.k = None

\* h is the address of an element that the call allocated and that holds x
Fresh(h, x) == ~Valid(heap, h) /\ Valid(heap', h) /\ Deref(heap', h) = x

\* C4 (slice equivalence with Python): getitem(slice(start, stop, step)) on
\* a container of any length n, with any optional start and stop and any
\* nonzero step, returns the elements of list[start:stop:step] in the same
\* order, and so nothing when start and stop cross or coincide.
C4_GetSliceLikePython ==
    (op.name = "getitem_slice" /\ op.res # "InvalidArgument")
        => Contents(vecs, heap, "b") = PyGet(Contents(vecs, heap, "a"), Called(op))

C6_StridedAssign ==
    [][(op'.name = "setitem_slice" /\ ~UnitStep(op') /\ op'.k # 0 /\ op'.xs # <<>>) =>
        LET old == vecs["a"].ptrs
            new == vecs'["a"].ptrs
            S == op'.xs
            ps == PySelected(Len(old), Called(op'))
        IN IF Len(S) = Len(ps)
           THEN /\ op'.res = "ok"
                /\ Len(new) = Len(old)
                /\ \A k \in 1..Len(ps) : Fresh(new[ps[k] + 1], S[k])
                /\ \A q \in 1..Len(old) :
                    (\A k \in 1..Len(ps) : ps[k] + 1 # q) => new[q] = old[q]
           ELSE op'.res = "InvalidArgument" /\ new = old]_vars

\* C7 (slice deletion): delitem(slice) with a nonzero step removes the
\* handles at the positions del list[start:stop:step] removes and keeps all
\* other handles in their order; a slice that selects nothing changes nothing.
C7_DeleteSlice ==
    [][(op'.name = "delitem_slice" /\ op'.k # 0) =>
        /\ op'.res = "ok"
        /\ vecs'["a"].ptrs = PyDel(vecs["a"].ptrs, Called(op'))]_vars

\* a Python index i on a list of length n: whether it resolves, and to
\* which 0-based position
Resolves(n, i) == (0 - n) <= i /\ i < n
Position(n, i) == IF i >= 0 THEN i ELSE i + n
RemoveAt(xs, p) == [k \in 1..(Len(xs) - 1) |-> IF k <= p THEN xs[k] ELSE xs[k + 1]]

\* C8 (single-index resolution): getitem(i), setitem(i, v), delitem(i) and
\* pop(i) on a container of length n act on position i (i >= 0) or i + n
\* (i < 0) when -n <= i < n and raise OutOfRange for every other i; pop() and
\* pop_back() on an empty container and at(pos) with pos >= n raise
\* OutOfRange.
C8_IndexResolution ==
    [][LET old == vecs["a"].ptrs
           new == vecs'["a"].ptrs
           n == Len(old)
           i == op'.i
           p == Position(n, i)
       IN /\ op'.name \in {"getitem", "setitem", "delitem", "pop"} =>
                IF Resolves(n, i)
                THEN /\ op'.res = "ok"
                     /\ op'.name = "getitem" => new = old /\ held'.h = old[p + 1]
                     /\ op'.name = "pop" => new = RemoveAt(old, p) /\ held'.h = old[p + 1]
                     /\ op'.name = "delitem" => new = RemoveAt(old, p)
                     /\ op'.name = "setitem" =>
                            /\ Len(new) = n
                            /\ Fresh(new[p + 1], op'.xs[1])
                            /\ \A q \in 1..n : q # p + 1 => new[q] = old[q]
                ELSE op'.res = "OutOfRange" /\ new = old /\ held' = held
          /\ (op'.name = "pop_back" /\ n = 0) => (op'.res = "OutOfRange" /\ new = old)
          /\ op'.name = "pop_back" => (op'.res = "OutOfRange") = (n = 0)
          /\ op'.name = "at" => (op'.res = "OutOfRange") = (i >= n)]_vars

\* C8's case: a negative index that resolves, on the longest list
C8_Witness ==
    /\ op.name = "pop" /\ op.i = 0 - MaxN /\ op.res = "ok"
    /\ Len(vecs["a"].ptrs) = MaxN - 1
    /\ held # NoHeld

\* the addresses that hold an element
Addresses(hp) ==
    UNION {UNION {{[buf |-> hp[s].chunks[j].buf, off |-> o] :
                      o \in 1..Len(hp[s].chunks[j].elems)} :
                  j \in 1..Len(hp[s].chunks)} :
           s \in {t \in SetIds : hp[t].live}}

\* _last_chunk of v is null or points at a chunk header that exists
CacheUsable(v, hp) == v.last = NullChunk \/ Owners(hp, v.last) # {}

Structural ==
    {"push_back", "insert", "erase", "pop", "pop_back", "resize", "setitem",
     "delitem", "sort", "filter", "reverse", "clear"}

\* C10 (shallow copy): b = a.copy() has the handles of a, position by
\* position, and stores no new element; a value written through a reference
\* from one container is read at every aliasing position of the other; a
\* structural call on one container leaves the other container's handles,
\* and the values they designate, unchanged.
C10_ShallowCopy ==
    [][LET c == op'.c
           d == Other(c)
       IN /\ op'.name = "copy" =>
                /\ vecs'[d].ptrs = vecs[c].ptrs
                /\ vecs'[d].res = vecs[c].res
                /\ vecs'[c] = vecs[c]
                /\ Addresses(heap') \subseteq Addresses(heap)
                /\ Contents(vecs', heap', d) = Contents(vecs, heap, c)
          /\ (op'.name = "at" /\ op'.res = "ok") =>
                /\ vecs' = vecs
                /\ Read(heap', vecs[c].ptrs[op'.i + 1]) = op'.xs[1]
                /\ \A q \in 1..Len(vecs[d].ptrs) :
                    vecs[d].ptrs[q] = vecs[c].ptrs[op'.i + 1]
                        => Read(heap', vecs'[d].ptrs[q]) = op'.xs[1]
          /\ op'.name \in Structural =>
                /\ vecs'[d].ptrs = vecs[d].ptrs
                /\ Contents(vecs', heap', d) = Contents(vecs, heap, d)]_vars

\* C10's case: a value written through a is read through its copy b, at a
\* position where the two containers alias
C10_Witness ==
    /\ op.name = "at" /\ op.res = "ok" /\ op.c = "a"
    /\ vecs["b"].live /\ vecs["b"].ptrs = vecs["a"].ptrs
    /\ Len(vecs["a"].ptrs) = MaxLen
    /\ Read(heap, vecs["b"].ptrs[op.i + 1]) = op.xs[1]
    /\ op.xs[1] # Alt(MaxLen)[op.i + 1]

\* the two containers have no ChunkSet and no element address in common
Apart(vs, c, d) ==
    /\ vs[c].res # vs[d].res
    /\ \A k \in 1..Len(vs[c].ptrs), l \in 1..Len(vs[d].ptrs) : vs[c].ptrs[k] # vs[d].ptrs[l]

\* C11 (deep copy independence): after d = c.deepcopy(), pyvec d(c) or d = c
\* the container d has the length and the element values of c and shares no
\* element address and no ChunkSet with c; and a value write, push_back,
\* erase, clear or destruction on one of two containers that share nothing
\* leaves the size, order and element values of the other unchanged.
C11_DeepCopyIndependent ==
    [][LET c == op'.c
           d == Other(c)
       IN /\ (op'.name \in {"deepcopy", "copy_assign"} /\ op'.res = "ok") =>
                /\ Contents(vecs', heap', d) = Contents(vecs, heap, c)
                /\ Contents(vecs', heap', c) = Contents(vecs, heap, c)
                /\ Apart(vecs', c, d)
          /\ (/\ op'.name \in {"at", "push_back", "erase", "clear", "destroy"}
              /\ vecs[c].live /\ vecs[d].live /\ Apart(vecs, c, d)) =>
                Contents(vecs', heap', d) = Contents(vecs, heap, d)]_vars

\* C12 (extend appends handles, not values): after c.extend(d), with c of
\* length n and d of length m, c has length n + m, its first n handles are
\* unchanged, and handle n + k of c is handle k of d, a live element.
C12_ExtendShares ==
    [][(op'.name = "extend" /\ op'.res = "ok") =>
        LET c == op'.c
            d == Other(c)
            n == Len(vecs[c].ptrs)
            m == Len(vecs[d].ptrs)
        IN /\ Len(vecs'[c].ptrs) = n + m
           /\ SubSeq(vecs'[c].ptrs, 1, n) = vecs[c].ptrs
           /\ \A k \in 1..m :
                /\ vecs'[c].ptrs[n + k] = vecs[d].ptrs[k]
                /\ Valid(heap', vecs'[c].ptrs[n + k])]_vars

\* how often handle h occurs in a table
Occurrences(ptrs, h) == Cardinality({k \in 1..Len(ptrs) : ptrs[k] = h})

\* the keys of consecutive elements do not decrease (do not increase when
\* rev)
Monotone(xs, rev) ==
    \A k \in 1..(Len(xs) - 1) : IF rev THEN xs[k] >= xs[k + 1] ELSE xs[k] <= xs[k + 1]

TableOnly == {"sort", "filter", "reverse", "erase", "pop", "pop_back", "delitem"}

\* C14 (structural operations are local to one handle table): sort, filter,
\* reverse, erase, pop, pop_back, delitem and a resize that does not grow
\* the table allocate nothing, change no capacity and no chunk, and leave
\* the handle table of the other container, and so the order, length and
\* values read through it, as they were.
C14_TableOnly ==
    [][(\/ op'.name \in TableOnly
        \/ op'.name = "resize" /\ Len(vecs'[op'.c].ptrs) <= Len(vecs[op'.c].ptrs)) =>
        LET c == op'.c
            d == Other(c)
        IN /\ nid' = nid
           /\ \A s \in SetIds : heap'[s].live => heap'[s] = heap[s]
           /\ vecs'[c].res = vecs[c].res
           /\ vecs'[d] = vecs[d]
           /\ Contents(vecs', heap', d) = Contents(vecs, heap, d)]_vars

\* C14's case: a has been sorted and its copy b, which shares the chunks,
\* still reads the elements in the order of construction
C14_Witness ==
    /\ op.name = "sort" /\ op.c = "a" /\ op.res = "ok"
    /\ vecs["b"].live /\ vecs["b"].res = vecs["a"].res
    /\ Len(vecs["a"].ptrs) = MaxLen /\ Len(vecs["b"].ptrs) = MaxLen
    /\ vecs["a"].ptrs # vecs["b"].ptrs
    /\ Contents(vecs, heap, "b") = Alt(MaxLen)

\* lexicographic order of two sequences: at the first position where they
\* differ xs is smaller, or xs is a proper prefix of ys
LexLess(xs, ys) ==
    \/ \E p \in 1..Min(Len(xs), Len(ys)) :
        /\ xs[p] < ys[p]
        /\ \A q \in 1..(p - 1) : xs[q] = ys[q]
    \/ /\ Len(xs) < Len(ys)
       /\ \A q \in 1..Len(xs) : xs[q] = ys[q]

\* the number of true statements among three
HowMany(p, q, r) == (IF p THEN 1 ELSE 0) + (IF q THEN 1 ELSE 0) + (IF r THEN 1 ELSE 0)

\* C15 (comparison operators are the lexicographic order): every comparison
\* c OP d returns what the lexicographic order of the contents says, and
\* for the containers compared, c == d iff their contents are equal
\* sequences, c < d iff the contents of c are lexicographically less, and
\* !=, >, <=, >= are
\* !(c == d), d < c, !(d < c), !(c < d); == is reflexive and symmetric and
\* exactly one of c < d, c == d, c > d holds.
C15_Lexicographic ==
    [][op'.name = "compare" =>
        LET c == op'.c
            d == IF op'.j = 1 THEN c ELSE Other(c)
            v == vecs[c]
            w == vecs[d]
            xs == Contents(vecs, heap, c)
            ys == Contents(vecs, heap, d)
            expected == CASE op'.k = 1 -> xs = ys
                          [] op'.k = 2 -> xs # ys
                          [] op'.k = 3 -> LexLess(xs, ys)
                          [] op'.k = 4 -> ~LexLess(ys, xs)
                          [] op'.k = 5 -> LexLess(ys, xs)
                          [] op'.k = 6 -> ~LexLess(xs, ys)
        IN /\ op'.res = Bool(expected)
           /\ UNCHANGED <<vecs, heap>>
           /\ compare(v, w, heap, 1) = (xs = ys)
           /\ compare(v, w, heap, 3) = LexLess(xs, ys)
           /\ compare(v, w, heap, 2) = ~compare(v, w, heap, 1)
           /\ compare(v, w, heap, 5) = compare(w, v, heap, 3)
           /\ compare(v, w, heap, 4) = ~compare(w, v, heap, 3)
           /\ compare(v, w, heap, 6) = ~compare(v, w, heap, 3)
           /\ compare(v, v, heap, 1)
           /\ compare(v, w, heap, 1) = compare(w, v, heap, 1)
           /\ HowMany(compare(v, w, heap, 3), compare(v, w, heap, 1),
                      compare(v, w, heap, 5)) = 1]_vars

\* C15's case: a < b has been evaluated to true with a a proper prefix of b
C15_Witness ==
    /\ op.name = "compare" /\ op.c = "a" /\ op.j = 0 /\ op.k = 3 /\ op.res = "true"
    /\ Len(vecs["a"].ptrs) = MaxN - 1 /\ Len(vecs["b"].ptrs) = MaxN
    /\ Contents(vecs, heap, "a") = SubSeq(Contents(vecs, heap, "b"), 1, MaxN - 1)

\* C16 (contents equal the input after construction or assignment): after
\* c.assign(L), c = L or c.assign(count, value), for every sequence L, the
\* empty one included, and whatever c held before, the contents of c are L
\* and its size is the length of L.
C16_AssignReplaces ==
    [][(op'.name = "assign" /\ op'.res = "ok") =>
        /\ Len(vecs'[op'.c].ptrs) = Len(op'.xs)
        /\ Contents(vecs', heap', op'.c) = op'.xs]_vars

\* C17 (range erase accepts exactly 0 <= first <= last <= length): on a
\* table of length n, erase(begin() + first, begin() + last) succeeds for
\* every 0 <= first <= last <= n, removes the handles at [first, last) and
\* keeps the others in order; for every other pair it raises OutOfRange and
\* changes nothing.  erase(begin() + pos) succeeds iff 0 <= pos < n and
\* removes the handle at pos.
C17_EraseRange ==
    [][LET c == op'.c
           old == vecs[c].ptrs
           n == Len(old)
       IN /\ op'.name = "erase_range" =>
                IF 0 <= op'.i /\ op'.i <= op'.j /\ op'.j <= n
                THEN /\ op'.res = "ok"
                     /\ vecs'[c].ptrs = SubSeq(old, 1, op'.i) \o SubSeq(old, op'.j + 1, n)
                ELSE /\ op'.res = "OutOfRange"
                     /\ vecs'[c].ptrs = old
          /\ op'.name = "erase" =>
                IF 0 <= op'.i /\ op'.i < n
                THEN /\ op'.res = "ok"
                     /\ vecs'[c].ptrs = SubSeq(old, 1, op'.i) \o SubSeq(old, op'.i + 2, n)
                ELSE /\ op'.res = "OutOfRange"
                     /\ vecs'[c].ptrs = old]_vars

\* C18 (positional insertion): on contents old of length n, insert(begin() +
\* p, S) with 0 <= p <= n makes the contents old[0:p] ++ S ++ old[p:], the
\* handles of the old elements unchanged and the elements of S newly
\* stored; a position p > n is rejected with OutOfRange and the table is
\* not changed; push_back(x) makes the contents old ++ [x].
C18_PositionalInsert ==
    [][LET c == op'.c
           old == vecs[c].ptrs
           new == vecs'[c].ptrs
           n == Len(old)
           p == op'.i
           S == op'.xs
       IN /\ op'.name \in {"insert", "insert_seq"} =>
                IF p <= n
                THEN /\ op'.res = "ok"
                     /\ new = SubSeq(old, 1, p) \o SubSeq(new, p + 1, p + Len(S))
                                \o SubSeq(old, p + 1, n)
                     /\ \A k \in 1..Len(S) : Fresh(new[p + k], S[k])
                     /\ Contents(vecs', heap', c) =
                            SubSeq(Contents(vecs, heap, c), 1, p) \o S
                                \o SubSeq(Contents(vecs, heap, c), p + 1, n)
                ELSE /\ op'.res = "OutOfRange"
                     /\ new = old
          /\ op'.name = "push_back" =>
                /\ op'.res = "ok"
                /\ SubSeq(new, 1, n) = old
                /\ Contents(vecs', heap', c) = Append(Contents(vecs, heap, c), S[1])]_vars

\* C19 (Python-style insert takes negative indices): on a container of
\* length n >= 1, insert(index, x) with -n <= index < 0 places x at position
\* index + n, before the element that was there; with 0 <= index < n it
\* places x at index; with index >= n it appends x.
C19_InsertNegative ==
    [][(op'.name = "insert_at" /\ op'.i >= 0 - Len(vecs[op'.c].ptrs)
            /\ Len(vecs[op'.c].ptrs) >= 1) =>
        LET c == op'.c
            xs == Contents(vecs, heap, c)
            n == Len(xs)
            p == IF op'.i < 0 THEN op'.i + n ELSE Min(op'.i, n)
        IN /\ op'.res = "ok"
           /\ Contents(vecs', heap', c) =
                SubSeq(xs, 1, p) \o op'.xs \o SubSeq(xs, p + 1, n)]_vars

\* C20 (reserve allocates only for a capacity above the current total):
\* reserve(n) with n <= capacity() changes nothing and raises no error;
\* with n > capacity() it appends exactly one empty chunk of capacity
\* max(64, n - capacity()) to the ChunkSet, so that capacity() >= n
\* afterwards, and leaves the handles and the chunks stored before as they
\* were.
C20_ReserveDeficit ==
    [][op'.name = "reserve" =>
        LET c == op'.c
            cs == heap[vecs[c].res]
            cs2 == heap'[vecs[c].res]
            n == op'.i
        IN /\ op'.res = "ok"
           /\ vecs'[c].ptrs = vecs[c].ptrs
           /\ IF n <= cs.capsum
              THEN cs2 = cs
              ELSE /\ Len(cs2.chunks) = Len(cs.chunks) + 1
                   /\ SubSeq(cs2.chunks, 1, Len(cs.chunks)) = cs.chunks
                   /\ cs2.chunks[Len(cs2.chunks)].elems = <<>>
                   /\ cs2.chunks[Len(cs2.chunks)].cap = Max(min_chunk_size, n - cs.capsum)
                   /\ cs2.capsum = cs.capsum + Max(min_chunk_size, n - cs.capsum)
                   /\ cs2.capsum >= n]_vars

(***************************************************************************)
(* Errors                                                                  *)
(***************************************************************************)
Errors == {"OutOfRange", "InvalidArgument", "NotFound"}

\* C21: a call that raises OutOfRange, InvalidArgument or NotFound (at,
\* getitem, setitem, delitem, pop, pop_back, erase, insert, remove, index,
\* a slice operation with step 0, a strided slice assignment of the wrong
\* length) leaves the handle tables, the element values, the capacity and
\* the chunks of every container, and what the caller holds, as they were
\* before the call.
C21_ErrorsBeforeMutation ==
    [][op'.res \in Errors =>
        /\ vecs' = vecs
        /\ heap' = heap
        /\ held' = held
        /\ nid' = nid]_vars

\* an insert at a position past the end of a non-empty table was refused
C21_Witness ==
    /\ op.name = "insert"
    /\ op.res = "OutOfRange"
    /\ op.i > Len(vecs["a"].ptrs)
    /\ Len(vecs["a"].ptrs) > 0

\* the positions of the half-open range [start, stop) with Python's negative
\* indices, and those of them where xs holds x
PyRange(n, start, stop) ==
    LET ps == PySelected(n, Slice(start, stop, 1))
    IN {ps[k] : k \in 1..Len(ps)}
PyHits(xs, start, stop, x) == {p \in PyRange(Len(xs), start, stop) : xs[p + 1] = x}

\* C22: index(value, start, stop) returns the smallest position of the range
\* [start, stop), resolved with Python's negative indices, whose element
\* equals value, and raises NotFound, never another error, when there is no
\* such position (empty container and empty range included).
C22_IndexLikePython ==
    [][op'.name = "index" =>
        LET hits == PyHits(Contents(vecs, heap, op'.c), op'.i, op'.j, op'.xs[1])
        IN IF hits = {} THEN op'.res = "NotFound"
           ELSE /\ op'.res = "ok"
                /\ op'.k \in hits
                /\ \A q \in hits : op'.k <= q]_vars

SliceCalls == {"getitem_slice", "setitem_slice", "delitem_slice"}

\* C23: build_slice rejects step 0 with InvalidArgument, and for every other
\* descriptor and every table length n it returns a count equal to the
\* number of positions the slice selects (0 when the range is empty,
\* whatever the step) and positions start + k*step, k < count, inside
\* [0, n).
C23_NormalizedInBounds ==
    [][op'.name \in SliceCalls =>
        LET n == Len(vecs[op'.c].ptrs)
            sl == Called(op')
        IN IF sl.step = 0 THEN op'.res = "InvalidArgument"
           ELSE /\ build_slice(n, sl).num_steps = PyAdjust(n, sl).count
                /\ InTable(n, build_slice(n, sl))]_vars

(***************************************************************************)
(* ChunkAllocator: capacity, pivot, slots, cache                           *)
(***************************************************************************)
\* C24: in every reachable state capacity() of every container equals the
\* sum of the capacities of the chunks of its ChunkSet, shared or not.
C24_CapacityIsSum ==
    \A c \in Names :
        vecs[c].live => heap[vecs[c].res].capsum = SumCaps(heap[vecs[c].res].chunks)

\* two containers share a ChunkSet of several chunks, one of them allocated
\* by suitable_chunk or reserve
C24_Witness ==
    /\ vecs["a"].live /\ vecs["b"].live
    /\ vecs["a"].res = vecs["b"].res
    /\ Len(heap[vecs["a"].res].chunks) >= 2
    /\ heap[vecs["a"].res].capsum >= min_chunk_size

\* the pivot of a container is at most the number of chunks, and the chunks
\* below it are full
PivotOK(vs, hp) ==
    \A c \in Names :
        vs[c].live =>
            /\ vs[c].pivot >= 0
            /\ vs[c].pivot <= Len(hp[vs[c].res].chunks)
            /\ \A i \in 1..vs[c].pivot :
                i <= Len(hp[vs[c].res].chunks) => Remaining(hp[vs[c].res].chunks[i]) = 0

\* the number of slots a labelled call asked suitable_chunk for
Asked(lbl, v) ==
    IF lbl.name = "resize" THEN lbl.i - Len(v.ptrs)
    ELSE IF lbl.name \in {"push_back", "insert", "setitem"} THEN 1
    ELSE 0

C25_AllocatorContract ==
    [][(op'.name = "push_back" /\ op'.res = "ok") =>
        LET c == op'.c
            w == vecs'[c]
            h == w.ptrs[Len(w.ptrs)]
            before == heap[vecs[c].res]
            after == heap'[w.res]
        IN /\ \E sc \in Holders(heap', h) : sc[1] = w.res
           /\ heap'[w.res].capsum = SumCaps(after.chunks)
           /\ Len(after.chunks) > Len(before.chunks) =>
                after.chunks[Len(after.chunks)].cap
                    = Max(1, Max(before.capsum, min_chunk_size))]_vars

\* C30: a container's cached chunk pointer is null or points at a chunk of
\* the chunk list of the ChunkSet the container now holds; no call (swap,
\* move-assignment, copy(), getitem(slice), clear(), reserve(), assign,
\* shrink_to_fit, a chunk appended through another container) leaves it
\* pointing into another ChunkSet or into a chunk list that was reallocated.
C30_CachePrivate ==
    \A c \in Names :
        (vecs[c].live /\ vecs[c].last # NullChunk) =>
            /\ vecs[c].last.ob = heap[vecs[c].res].obuf
            /\ vecs[c].last.idx <= Len(heap[vecs[c].res].chunks)

Allocating == {"push_back", "insert", "resize", "setitem"}

\* C27: an element created by push_back, insert, a growing resize or
\* setitem is stored in a slot of a chunk that held no element before the
\* call, and no chunk loses elements: the slots of erased, popped, truncated
\* and overwritten elements are never given to a new element.
C27_NoSlotReuse ==
    [][op'.name \in Allocating \cup {"pop_back"} =>
        /\ \A s \in SetIds : heap[s].live =>
            /\ heap'[s].live
            /\ \A i \in 1..Len(heap[s].chunks) :
                Len(heap'[s].chunks[i].elems) >= Len(heap[s].chunks[i].elems)
        /\ \A k \in 1..Len(vecs'[op'.c].ptrs) :
            LET h == vecs'[op'.c].ptrs[k]
            IN (\A q \in 1..Len(vecs[op'.c].ptrs) : vecs[op'.c].ptrs[q] # h)
                => (h \in Addresses(heap') /\ h \notin Addresses(heap))]_vars

(***************************************************************************)
(* Sorting by key                                                          *)
(***************************************************************************)
\* the position of handle h in a table of distinct handles
Where(ptrs, h) == CHOOSE k \in 1..Len(ptrs) : ptrs[k] = h

\* C28: sort(key, reverse) is stable for reverse = false and for
\* reverse = true: two elements whose keys are equal are, by their
\* addresses, in the same relative order after the sort as before it.
C28_StableBothWays ==
    [][op'.name = "sort_key" =>
        LET old == vecs[op'.c].ptrs
            new == vecs'[op'.c].ptrs
        IN /\ Len(new) = Len(old)
           /\ \A p \in 1..Len(old) : \A q \in 1..Len(old) :
                (/\ p < q
                 /\ KeyOf(op'.k, Deref(heap, old[p])) = KeyOf(op'.k, Deref(heap, old[q])))
                => Where(new, old[p]) < Where(new, old[q])]_vars

\* a reverse sort moved elements and left two elements with equal keys,
\* stored at different addresses, in the table
C28_Witness ==
    /\ op.name = "sort_key"
    /\ op.i = 1
    /\ LET ptrs == vecs[op.c].ptrs
       IN /\ Len(ptrs) = MaxN
          /\ \E p \in 1..Len(ptrs) : \E q \in 1..Len(ptrs) :
                /\ p < q
                /\ ptrs[p] # ptrs[q]
                /\ KeyOf(op.k, Deref(heap, ptrs[p])) = KeyOf(op.k, Deref(heap, ptrs[q]))
          /\ \E p \in 1..Len(ptrs) : \E q \in 1..Len(ptrs) :
                /\ p < q
                /\ KeyOf(op.k, Deref(heap, ptrs[p])) > KeyOf(op.k, Deref(heap, ptrs[q]))
                /\ ptrs[p].off > ptrs[q].off

(***************************************************************************)
(* Self-aliasing                                                           *)
(***************************************************************************)
\* l[start:stop:step] = ys in Python, for a ys the slice accepts
PySet(xs, sl, ys) ==
    LET a == PyAdjust(Len(xs), sl)
    IN IF a.step = 1
       THEN SubSeq(xs, 1, Min(a.start, Len(xs))) \o ys
                \o SubSeq(xs, Max(a.start, a.start + a.count) + 1, Len(xs))
       ELSE [q \in 1..Len(xs) |->
                IF \E k \in 1..a.count : a.start + (k - 1) * a.step = q - 1
                THEN ys[(CHOOSE k \in 1..a.count : a.start + (k - 1) * a.step = q - 1)]
                ELSE xs[q]]

\* C29: a container of length n >= 1 passed to itself is read like a
\* snapshot taken before the call: v.extend(v) leaves old ++ old,
\* v.insert(v.begin() + p, v.begin(), v.end()) leaves old with old inserted
\* at p, v.setitem(slice, v) leaves what the assignment of a copy of old
\* leaves, and no read goes through an invalidated position.
C29_SelfAliasing ==
    [][(/\ op'.name \in {"extend_self", "insert_self", "setitem_slice_self"}
        /\ Len(vecs[op'.c].ptrs) >= 1
        /\ op'.res \notin Errors) =>
        LET old == Contents(vecs, heap, op'.c)
            new == Contents(vecs', heap', op'.c)
        IN /\ op'.res = "ok"
           /\ op'.name = "extend_self" => new = old \o old
           /\ op'.name = "insert_self" =>
                new = SubSeq(old, 1, op'.i) \o old \o SubSeq(old, op'.i + 1, Len(old))
           /\ op'.name = "setitem_slice_self" => new = PySet(old, Called(op'), old)]_vars

====
